---- MODULE Spec2Model ----
(***************************************************************************)
(* NeoPaquet: the modern-dialect front end (src/src/parser.py) and the     *)
(* semantic analyzer (src/src/error_checker.py) as a state machine.        *)
(*                                                                         *)
(* Python values are represented as follows.                               *)
(*   - None is the string NoneT, which no lexeme can spell.                *)
(*   - an AST node is a record whose field k is the dataclass name and     *)
(*     whose other fields are the dataclass fields.                        *)
(*   - the value of a Literal is the pair (py, pyval): the Python type of  *)
(*     the value and its repr.                                             *)
(*   - a dict is the sequence of its items in insertion order.             *)
(*   - an f-string is the sequence of its pieces.                          *)
(***************************************************************************)
EXTENDS Integers, Sequences, FiniteSets, TLC

VARIABLES
    program,    \* the Program handed to check_errors (its statements)
    checker,    \* the ErrorChecker instance: errors, scopes, return type
    stmt_index, \* position of check_program's loop over program.statements
    pc,         \* where the caller of check_errors is
    calls,      \* number of check_errors calls that have returned
    results,    \* the diagnostic lists returned so far, in call order
    tokens,     \* the token list handed to Parser (trivia filtered)
    parsed,     \* outcome of Parser.parse on tokens
    lexer,      \* a Lexer of src/src/lexer.py: source, position, tokens
    compiler,   \* a NeoPaquetCompiler and its compile_source call
    legacy,     \* the legacy pipeline: src/lexer.py and src/Parser.py
    irgen,      \* an IRGen of src/neopaquet/irgen.py and its module
    nasmgen,    \* a NASMGen.emit_exe call and the file system it touches
    autofix     \* an auto_fix_common_errors call

\* the components a specification of the front end leaves alone
others == <<lexer, compiler, legacy, irgen, nasmgen, autofix>>

vars == <<program, checker, stmt_index, pc, calls, results, tokens, parsed,
          lexer, compiler, legacy, irgen, nasmgen, autofix>>

\* a component that a specification does not run
Unused == [pc |-> "unused"]

NoneT == "<None>"

\* str(x) inside an f-string: None prints as None
py_str(x) == IF x = NoneT THEN "None" ELSE x

-----------------------------------------------------------------------------
(* AST constructors: src/src/parser.py dataclasses *)

NoExpr == [k |-> "None"]

Literal(py, pyval) == [k |-> "Literal", py |-> py, pyval |-> pyval]

Identifier(name) == [k |-> "Identifier", name |-> name]

BinaryOp(left, operator, right) ==
    [k |-> "BinaryOp", left |-> left, operator |-> operator, right |-> right]

UnaryOp(operator, operand) ==
    [k |-> "UnaryOp", operator |-> operator, operand |-> operand]

FunctionCall(function, arguments) ==
    [k |-> "FunctionCall", function |-> function, arguments |-> arguments]

MemberAccess(object, member) ==
    [k |-> "MemberAccess", object |-> object, member |-> member]

LetStatement(name, type_annotation, value) ==
    [k |-> "LetStatement", name |-> name,
     type_annotation |-> type_annotation, value |-> value]

Parameter(name, type_annotation) ==
    [name |-> name, type_annotation |-> type_annotation]

FunctionDefinition(name, parameters, return_type, body) ==
    [k |-> "FunctionDefinition", name |-> name, parameters |-> parameters,
     return_type |-> return_type, body |-> body]

ReturnStatement(value) == [k |-> "ReturnStatement", value |-> value]

\* else_body None and else_body [] are both falsy (error_checker.py:368);
\* has_else keeps them apart.
IfStatement(condition, then_body, has_else, else_body) ==
    [k |-> "IfStatement", condition |-> condition, then_body |-> then_body,
     has_else |-> has_else, else_body |-> else_body]

WhileStatement(condition, body) ==
    [k |-> "WhileStatement", condition |-> condition, body |-> body]

ForStatement(variable, iterable, body) ==
    [k |-> "ForStatement", variable |-> variable, iterable |-> iterable,
     body |-> body]

ExpressionStatement(expression) ==
    [k |-> "ExpressionStatement", expression |-> expression]

Block(statements) == [k |-> "Block", statements |-> statements]

StructField(name, type_annotation) ==
    [name |-> name, type_annotation |-> type_annotation]

StructDefinition(name, fields) ==
    [k |-> "StructDefinition", name |-> name, fields |-> fields]

ImportStatement(module_name, from_package, version_constraint) ==
    [k |-> "ImportStatement", module_name |-> module_name,
     from_package |-> from_package,
     version_constraint |-> version_constraint, alias |-> NoneT]

PackageDeclaration(name, version, dependencies, exports) ==
    [k |-> "PackageDeclaration", name |-> name, version |-> version,
     dependencies |-> dependencies, exports |-> exports]

-----------------------------------------------------------------------------
(* Symbols and scopes: src/src/error_checker.py *)

Symbol(name, type) ==
    [name |-> name, type |-> type, used |-> FALSE, cls |-> "Symbol",
     parameters |-> <<>>, return_type |-> NoneT, fields |-> <<>>]

FunctionSymbol(name, type_name, parameters, return_type) ==
    [name |-> name, type |-> type_name, used |-> FALSE,
     cls |-> "FunctionSymbol", parameters |-> parameters,
     return_type |-> return_type, fields |-> <<>>]

StructSymbol(name, type_name, fields) ==
    [name |-> name, type |-> type_name, used |-> FALSE,
     cls |-> "StructSymbol", parameters |-> <<>>, return_type |-> NoneT,
     fields |-> fields]

\* `name in scope.symbols`
InScope(scope, name) == \E i \in 1..Len(scope) : scope[i].name = name

\* position of name in the dict (0 when absent)
SlotOf(scope, name) ==
    IF InScope(scope, name)
    THEN CHOOSE i \in 1..Len(scope) : scope[i].name = name
    ELSE 0

\* Scope.define: the first definition of a name in a scope wins
define(scope, name, symbol) ==
    IF InScope(scope, name) THEN scope ELSE Append(scope, symbol)

\* Scope.lookup from the scope at depth d of the chain scopes (scopes[1] is
\* the global scope, scopes[d-1] the parent of scopes[d]); the result is
\* the depth of the scope that holds the name, 0 for None.
RECURSIVE lookup_depth(_, _, _)
lookup_depth(scopes, d, name) ==
    IF d = 0 THEN 0
    ELSE IF InScope(scopes[d], name) THEN d
    ELSE lookup_depth(scopes, d - 1, name)

lookup(scopes, d, name) ==
    LET at == lookup_depth(scopes, d, name)
    IN IF at = 0 THEN [found |-> FALSE, symbol |-> Symbol(NoneT, NoneT)]
       ELSE [found |-> TRUE, symbol |-> scopes[at][SlotOf(scopes[at], name)]]

\* Scope.mark_used
mark_used(scopes, d, name) ==
    LET at == lookup_depth(scopes, d, name)
    IN IF at = 0 THEN scopes
       ELSE [scopes EXCEPT ![at][SlotOf(scopes[at], name)].used = TRUE]

built_in_types ==
    {"String", "i32", "u32", "i64", "u64", "f32", "f64", "bool", "Version"}

\* ErrorChecker._add_built_ins
add_built_ins(scope) ==
    LET print_fn == FunctionSymbol("print", "void",
                        <<Parameter("message", "String")>>, "void")
        len_fn == FunctionSymbol("len", "u32",
                        <<Parameter("s", "String")>>, "u32")
    IN define(define(scope, "print", print_fn), "len", len_fn)

\* ErrorChecker.__init__ with the symbol dict of the global scope shared
\* between instances (a mutable default argument of Scope.__init__)
ErrorChecker_shared_symbols ==
    [errors |-> <<>>,
     scopes |-> IF calls = 0 THEN <<add_built_ins(<<>>)>>
                ELSE <<add_built_ins(checker.scopes[1])>>,
     current_function_return_type |-> NoneT]

\* ErrorChecker.__init__
ErrorChecker ==
    [errors |-> <<>>,
     scopes |-> <<add_built_ins(<<>>)>>,
     current_function_return_type |-> NoneT]

global_scope(ck) == ck.scopes[1]

current_scope(ck) == ck.scopes[Len(ck.scopes)]

enter_scope(ck) == [ck EXCEPT !.scopes = Append(@, <<>>)]

\* exit_scope: the global scope has no parent and is never left
exit_scope(ck) ==
    IF Len(ck.scopes) > 1
    THEN [ck EXCEPT !.scopes = SubSeq(@, 1, Len(@) - 1)]
    ELSE ck

SemanticError(type, message) == [type |-> type, message |-> message]

\* add_error with the new diagnostic put in front of the list
add_error_first(ck, error_type, message) ==
    [ck EXCEPT !.errors = <<SemanticError(error_type, message)>> \o @]

add_error(ck, error_type, message) ==
    [ck EXCEPT !.errors = Append(@, SemanticError(error_type, message))]

define_current(ck, name, symbol) ==
    [ck EXCEPT !.scopes[Len(ck.scopes)] = define(@, name, symbol)]

define_global(ck, name, symbol) ==
    [ck EXCEPT !.scopes[1] = define(@, name, symbol)]

is_valid_type(ck, type_name) ==
    \/ type_name \in built_in_types
    \/ LET r == lookup(ck.scopes, 1, type_name)
       IN r.found /\ r.symbol.cls = "StructSymbol"

-----------------------------------------------------------------------------
(* Expression typing: ErrorChecker.get_expression_type *)

\* isinstance(value, cls) for the Python type py of a literal's value;
\* bool is a subclass of int
isinstance_py(py, cls) == py = cls \/ (cls = "int" /\ py = "bool")

literal_type(py) ==
    IF isinstance_py(py, "int") THEN "i32"
    ELSE IF isinstance_py(py, "float") THEN "f64"
    ELSE IF isinstance_py(py, "str") THEN "String"
    ELSE IF isinstance_py(py, "bool") THEN "bool"
    ELSE NoneT

Typed(ck, type) == [ck |-> ck, type |-> type]

arithmetic_ops == {"+", "-", "*", "/", "%"}

comparison_ops == {"==", "!=", "<", "<=", ">", ">="}

logical_ops == {"&&", "||"}

numeric_types == {"i32", "u32", "i64", "u64", "f32", "f64"}

negatable_types == {"i32", "i64", "f32", "f64"}

binary_op_type(ck, operator, left_type, right_type) ==
    IF left_type = NoneT \/ right_type = NoneT THEN Typed(ck, NoneT)
    ELSE IF operator \in arithmetic_ops THEN
        IF left_type = right_type /\ left_type \in numeric_types
        THEN Typed(ck, left_type)
        ELSE IF operator = "+" /\ left_type = "String" /\ right_type = "String"
        THEN Typed(ck, "String")
        ELSE Typed(add_error(ck, "TYPE_ERROR",
                 <<"Cannot apply operator '", operator, "' to types '",
                   left_type, "' and '", right_type, "'">>), NoneT)
    ELSE IF operator \in comparison_ops THEN
        IF left_type = right_type THEN Typed(ck, "bool")
        ELSE Typed(add_error(ck, "TYPE_ERROR",
                 <<"Cannot compare types '", left_type, "' and '",
                   right_type, "'">>), "bool")
    ELSE IF operator \in logical_ops THEN
        IF left_type = "bool" /\ right_type = "bool" THEN Typed(ck, "bool")
        ELSE Typed(add_error(ck, "TYPE_ERROR",
                 <<"Logical operator '", operator,
                   "' requires boolean operands">>), "bool")
    ELSE Typed(ck, NoneT)

unary_op_type(ck, operator, operand_type) ==
    IF operand_type = NoneT THEN Typed(ck, NoneT)
    ELSE IF operator = "!" THEN
        IF operand_type = "bool" THEN Typed(ck, "bool")
        ELSE Typed(add_error(ck, "TYPE_ERROR",
                 <<"Cannot apply '!' to type '", operand_type, "'">>), "bool")
    ELSE IF operator = "-" THEN
        IF operand_type \in negatable_types THEN Typed(ck, operand_type)
        ELSE Typed(add_error(ck, "TYPE_ERROR",
                 <<"Cannot apply unary '-' to type '", operand_type, "'">>),
                 operand_type)
    ELSE Typed(ck, NoneT)

identifier_type(ck, name) ==
    LET r == lookup(ck.scopes, Len(ck.scopes), name)
    IN IF r.found
       THEN Typed([ck EXCEPT !.scopes = mark_used(@, Len(@), name)],
                  r.symbol.type)
       ELSE Typed(add_error(ck, "UNDEFINED_VARIABLE",
                  <<"Undefined variable: ", name>>), NoneT)

member_type(ck, object_type, member) ==
    IF object_type = NoneT THEN Typed(ck, NoneT)
    ELSE
      LET r == lookup(ck.scopes, 1, object_type)
      IN IF r.found /\ r.symbol.cls = "StructSymbol"
         THEN LET fields == r.symbol.fields
                  hits == {i \in 1..Len(fields) : fields[i].name = member}
              IN IF hits # {}
                 THEN Typed(ck, fields[CHOOSE i \in hits :
                                  \A j \in hits : i <= j].type_annotation)
                 ELSE Typed(add_error(ck, "SEMANTIC_ERROR",
                        <<"Type '", object_type, "' has no member '",
                          member, "'">>), NoneT)
         ELSE Typed(add_error(ck, "TYPE_ERROR",
                <<"Cannot access member '", member,
                  "' on non-struct type '", object_type, "'">>), NoneT)

min(a, b) == IF a <= b THEN a ELSE b

RECURSIVE get_expression_type(_, _)
RECURSIVE check_arguments(_, _, _, _, _)

\* the loop over zip(expr.arguments, symbol.parameters), from index i
check_arguments(ck, fname, arguments, parameters, i) ==
    IF i > min(Len(arguments), Len(parameters)) THEN ck
    ELSE
      LET a == get_expression_type(ck, arguments[i])
          expected == parameters[i].type_annotation
          ck1 == IF a.type # expected
                 THEN add_error(a.ck, "TYPE_ERROR",
                        <<"Argument ", ToString(i), " of function '", fname,
                          "' expects type '", expected, "', got '",
                          py_str(a.type), "'">>)
                 ELSE a.ck
      IN check_arguments(ck1, fname, arguments, parameters, i + 1)

get_expression_type(ck, expr) ==
    CASE expr.k = "Literal" -> Typed(ck, literal_type(expr.py))
      [] expr.k = "Identifier" -> identifier_type(ck, expr.name)
      [] expr.k = "BinaryOp" ->
            LET l == get_expression_type(ck, expr.left)
                r == get_expression_type(l.ck, expr.right)
            IN binary_op_type(r.ck, expr.operator, l.type, r.type)
      [] expr.k = "UnaryOp" ->
            LET o == get_expression_type(ck, expr.operand)
            IN unary_op_type(o.ck, expr.operator, o.type)
      [] expr.k = "FunctionCall" ->
            LET f == get_expression_type(ck, expr.function)
            IN IF expr.function.k # "Identifier" THEN Typed(f.ck, NoneT)
               ELSE
                 LET name == expr.function.name
                     r == lookup(f.ck.scopes, Len(f.ck.scopes), name)
                 IN IF r.found /\ r.symbol.cls = "FunctionSymbol"
                    THEN
                      LET ck1 ==
                            IF Len(expr.arguments) # Len(r.symbol.parameters)
                            THEN add_error(f.ck, "TYPE_ERROR",
                                   <<"Function '", name, "' expects ",
                                     ToString(Len(r.symbol.parameters)),
                                     " arguments, got ",
                                     ToString(Len(expr.arguments))>>)
                            ELSE f.ck
                      IN Typed(check_arguments(ck1, name, expr.arguments,
                                   r.symbol.parameters, 1),
                               r.symbol.return_type)
                    ELSE Typed(add_error(f.ck, "UNDEFINED_FUNCTION",
                                 <<"Undefined function: ", name>>), NoneT)
      [] expr.k = "MemberAccess" ->
            LET o == get_expression_type(ck, expr.object)
            IN member_type(o.ck, o.type, expr.member)
      [] OTHER -> Typed(ck, NoneT)

-----------------------------------------------------------------------------
(* Statement checks *)

check_let_statement(ck, stmt) ==
    LET ck1 == IF stmt.type_annotation # NoneT
                  /\ ~is_valid_type(ck, stmt.type_annotation)
               THEN add_error(ck, "UNDEFINED_TYPE",
                      <<"Undefined type: ", stmt.type_annotation>>)
               ELSE ck
        ck2 == IF InScope(current_scope(ck1), stmt.name)
               THEN add_error(ck1, "REDEFINITION",
                      <<"Variable '", stmt.name, "' is already defined">>)
               ELSE ck1
        e == IF stmt.value # NoExpr
             THEN get_expression_type(ck2, stmt.value)
             ELSE Typed(ck2, NoneT)
        ck3 == IF stmt.type_annotation # NoneT /\ e.type # NoneT
                  /\ stmt.type_annotation # e.type
               THEN add_error(e.ck, "TYPE_ERROR",
                      <<"Cannot assign value of type '", e.type,
                        "' to variable of type '", stmt.type_annotation,
                        "'">>)
               ELSE e.ck
        final_type == IF stmt.type_annotation # NoneT
                      THEN stmt.type_annotation ELSE e.type
    IN IF final_type # NoneT
       THEN define_current(ck3, stmt.name, Symbol(stmt.name, final_type))
       ELSE add_error(ck3, "TYPE_ERROR",
              <<"Cannot determine type of variable">>)

check_return_statement(ck, stmt) ==
    IF ck.current_function_return_type = NoneT
    THEN add_error(ck, "SEMANTIC_ERROR",
           <<"Return statement outside function">>)
    ELSE IF stmt.value # NoExpr THEN
        LET r == get_expression_type(ck, stmt.value)
        IN IF r.type # ck.current_function_return_type
           THEN add_error(r.ck, "TYPE_ERROR",
                  <<"Cannot return value of type '", py_str(r.type),
                    "' from function expecting '",
                    ck.current_function_return_type, "'">>)
           ELSE r.ck
    ELSE IF ck.current_function_return_type # "void"
    THEN add_error(ck, "TYPE_ERROR",
           <<"Function expecting return type '",
             ck.current_function_return_type, "' must return a value">>)
    ELSE ck

RECURSIVE check_parameter_types(_, _, _)
check_parameter_types(ck, parameters, i) ==
    IF i > Len(parameters) THEN ck
    ELSE check_parameter_types(
           IF ~is_valid_type(ck, parameters[i].type_annotation)
           THEN add_error(ck, "UNDEFINED_TYPE",
                  <<"Undefined type: ", parameters[i].type_annotation>>)
           ELSE ck,
           parameters, i + 1)

RECURSIVE define_parameters(_, _, _)
define_parameters(ck, parameters, i) ==
    IF i > Len(parameters) THEN ck
    ELSE define_parameters(
           define_current(ck, parameters[i].name,
               Symbol(parameters[i].name, parameters[i].type_annotation)),
           parameters, i + 1)

\* the loop over stmt.fields of check_struct_definition, from index i
RECURSIVE check_fields(_, _, _, _)
check_fields(ck, fields, field_names, i) ==
    IF i > Len(fields) THEN ck
    ELSE
      LET ck1 == IF fields[i].name \in field_names
                 THEN add_error(ck, "REDEFINITION",
                        <<"Field '", fields[i].name,
                          "' is defined multiple times">>)
                 ELSE ck
          ck2 == IF ~is_valid_type(ck1, fields[i].type_annotation)
                 THEN add_error(ck1, "UNDEFINED_TYPE",
                        <<"Undefined field type: ",
                          fields[i].type_annotation>>)
                 ELSE ck1
      IN check_fields(ck2, fields, field_names \cup {fields[i].name}, i + 1)

check_struct_definition(ck, stmt) ==
    LET ck1 == IF InScope(global_scope(ck), stmt.name)
               THEN add_error(ck, "REDEFINITION",
                      <<"Struct '", stmt.name, "' is already defined">>)
               ELSE ck
        ck2 == check_fields(ck1, stmt.fields, {}, 1)
    IN define_global(ck2, stmt.name,
           StructSymbol(stmt.name, stmt.name, stmt.fields))

RECURSIVE check_statement(_, _)
RECURSIVE check_statements(_, _, _)

\* `for s in body: self.check_statement(s)`, from index i
check_statements(ck, body, i) ==
    IF i > Len(body) THEN ck
    ELSE check_statements(check_statement(ck, body[i]), body, i + 1)

check_function_definition(ck, stmt) ==
    LET ck1 == IF InScope(global_scope(ck), stmt.name)
               THEN add_error(ck, "REDEFINITION",
                      <<"Function '", stmt.name, "' is already defined">>)
               ELSE ck
        ck2 == check_parameter_types(ck1, stmt.parameters, 1)
        ck3 == IF stmt.return_type # NoneT
                  /\ ~is_valid_type(ck2, stmt.return_type)
               THEN add_error(ck2, "UNDEFINED_TYPE",
                      <<"Undefined return type: ", stmt.return_type>>)
               ELSE ck2
        func_symbol == FunctionSymbol(stmt.name,
                           IF stmt.return_type # NoneT
                           THEN stmt.return_type ELSE "void",
                           stmt.parameters, stmt.return_type)
        ck4 == define_global(ck3, stmt.name, func_symbol)
        ck5 == [enter_scope(ck4) EXCEPT
                  !.current_function_return_type = stmt.return_type]
        ck6 == define_parameters(ck5, stmt.parameters, 1)
        ck7 == check_statements(ck6, stmt.body, 1)
    IN exit_scope([ck7 EXCEPT !.current_function_return_type = NoneT])

check_condition(ck, condition, what) ==
    LET c == get_expression_type(ck, condition)
    IN IF c.type # "bool"
       THEN add_error(c.ck, "TYPE_ERROR",
              <<what, " condition must be boolean, got '",
                py_str(c.type), "'">>)
       ELSE c.ck

check_scoped_body(ck, body) ==
    exit_scope(check_statements(enter_scope(ck), body, 1))

check_if_statement(ck, stmt) ==
    LET ck1 == check_condition(ck, stmt.condition, "If")
        ck2 == check_scoped_body(ck1, stmt.then_body)
    IN IF stmt.has_else /\ stmt.else_body # <<>>
       THEN check_scoped_body(ck2, stmt.else_body)
       ELSE ck2

check_while_statement(ck, stmt) ==
    check_scoped_body(check_condition(ck, stmt.condition, "While"),
                      stmt.body)

check_for_statement(ck, stmt) ==
    LET it == get_expression_type(ck, stmt.iterable)
        loop_var_type == "i32"
        ck1 == define_current(enter_scope(it.ck), stmt.variable,
                   Symbol(stmt.variable, loop_var_type))
    IN exit_scope(check_statements(ck1, stmt.body, 1))

check_expression_statement(ck, stmt) ==
    get_expression_type(ck, stmt.expression).ck

check_block(ck, stmt) == check_scoped_body(ck, stmt.statements)

check_statement(ck, stmt) ==
    CASE stmt.k = "LetStatement" -> check_let_statement(ck, stmt)
      [] stmt.k = "FunctionDefinition" -> check_function_definition(ck, stmt)
      [] stmt.k = "ReturnStatement" -> check_return_statement(ck, stmt)
      [] stmt.k = "IfStatement" -> check_if_statement(ck, stmt)
      [] stmt.k = "WhileStatement" -> check_while_statement(ck, stmt)
      [] stmt.k = "ForStatement" -> check_for_statement(ck, stmt)
      [] stmt.k = "ExpressionStatement" ->
            check_expression_statement(ck, stmt)
      [] stmt.k = "Block" -> check_block(ck, stmt)
      [] stmt.k = "StructDefinition" -> check_struct_definition(ck, stmt)
      [] OTHER -> ck

\* ErrorChecker._check_unused_symbols: the items of the global scope in
\* insertion order, from index i
RECURSIVE check_unused_symbols(_, _)
check_unused_symbols(ck, i) ==
    IF i > Len(global_scope(ck)) THEN ck
    ELSE
      LET symbol == global_scope(ck)[i]
      IN check_unused_symbols(
           IF ~symbol.used /\ symbol.cls = "Symbol"
           THEN add_error(ck, "SEMANTIC_ERROR",
                  <<"Unused variable: ", symbol.name>>)
           ELSE ck,
           i + 1)

\* ErrorChecker.check_program, run to completion on one instance
check_program(ck, statements) ==
    check_unused_symbols(
        check_statements([ck EXCEPT !.errors = <<>>], statements, 1), 1)

-----------------------------------------------------------------------------
(* Parser: src/src/parser.py.  Positions are 1-based.  A parsing function  *)
(* returns the position it stopped at, how it ended and the node it built: *)
(* "ok" (returned), "ParseError" (raised at pos) or "hang" (a while loop   *)
(* finished an iteration without consuming a token, so its next iteration  *)
(* starts from the state of the last one and the loop never ends).         *)

Token(type, value) == [type |-> type, value |-> value]

Ok(pos, node) == [pos |-> pos, status |-> "ok", node |-> node]

Raise(pos) == [pos |-> pos, status |-> "ParseError", node |-> NoExpr]

Hang(pos) == [pos |-> pos, status |-> "hang", node |-> NoExpr]

\* run F on the result of r unless r raised or hangs
Bind(r, F(_)) == IF r.status = "ok" THEN F(r) ELSE r

\* a loop that is about to start an iteration at pos after one that
\* started at from
Again(from, pos, r) == IF pos = from THEN Hang(pos) ELSE r

current_token(toks, pos) ==
    IF pos > Len(toks) THEN Token(NoneT, "") ELSE toks[pos]

advance(toks, pos) == IF pos <= Len(toks) THEN pos + 1 ELSE pos

match_token(toks, pos, token_types) ==
    current_token(toks, pos).type \in token_types

expect_token(toks, pos, expected_type) ==
    IF current_token(toks, pos).type # expected_type
    THEN Raise(pos)
    ELSE Ok(advance(toks, pos), current_token(toks, pos))

RECURSIVE skip_newlines(_, _)
skip_newlines(toks, pos) ==
    IF match_token(toks, pos, {"NEWLINE"})
    THEN skip_newlines(toks, advance(toks, pos))
    ELSE pos

\* int(token.value), float(token.value): the repr of the converted value
py_int(lexeme) ==
    CASE lexeme = "007" -> "7"
      [] OTHER -> lexeme

py_float(lexeme) ==
    CASE lexeme = "2." -> "2.0"
      [] OTHER -> lexeme

RECURSIVE parse_statement(_, _)
RECURSIVE parse_block_body(_, _, _)
RECURSIVE parse_expression(_, _)
RECURSIVE parse_binary_loop(_, _, _, _)
RECURSIVE parse_unary(_, _)
RECURSIVE parse_postfix_loop(_, _, _)
RECURSIVE parse_arguments(_, _, _)
RECURSIVE parse_operand(_, _, _)

parse_primary(toks, pos) ==
    LET token == current_token(toks, pos)
    IN CASE token.type = NoneT -> Raise(pos)
         [] token.type = "INTEGER" ->
              Ok(advance(toks, pos), Literal("int", py_int(token.value)))
         [] token.type = "FLOAT" ->
              Ok(advance(toks, pos), Literal("float", py_float(token.value)))
         [] token.type = "STRING" ->
              Ok(advance(toks, pos), Literal("str", token.value))
         [] token.type = "BOOLEAN" ->
              Ok(advance(toks, pos),
                 Literal("bool", IF token.value = "true"
                                 THEN "True" ELSE "False"))
         [] token.type = "IDENTIFIER" ->
              Ok(advance(toks, pos), Identifier(token.value))
         [] token.type = "LPAREN" ->
              Bind(parse_expression(toks, advance(toks, pos)), LAMBDA e :
              Bind(expect_token(toks, e.pos, "RPAREN"), LAMBDA c :
              Ok(c.pos, e.node)))
         [] OTHER -> Raise(pos)

\* the argument loop of a call, `while not self.match_token(RPAREN)`
parse_arguments(toks, pos, arguments) ==
    IF match_token(toks, pos, {"RPAREN"}) THEN Ok(pos, arguments)
    ELSE
      Bind(parse_expression(toks, pos), LAMBDA e :
        IF match_token(toks, e.pos, {"COMMA"})
        THEN Again(pos, advance(toks, e.pos),
               parse_arguments(toks, advance(toks, e.pos),
                               Append(arguments, e.node)))
        ELSE IF ~match_token(toks, e.pos, {"RPAREN"}) THEN Raise(e.pos)
        ELSE Again(pos, e.pos,
               parse_arguments(toks, e.pos, Append(arguments, e.node))))

\* the `while True` loop of parse_postfix
parse_postfix_loop(toks, pos, expr) ==
    IF match_token(toks, pos, {"LPAREN"}) THEN
      Bind(parse_arguments(toks, advance(toks, pos), <<>>), LAMBDA a :
      Bind(expect_token(toks, a.pos, "RPAREN"), LAMBDA c :
      parse_postfix_loop(toks, c.pos, FunctionCall(expr, a.node))))
    ELSE IF match_token(toks, pos, {"DOT"}) THEN
      Bind(expect_token(toks, advance(toks, pos), "IDENTIFIER"), LAMBDA m :
      parse_postfix_loop(toks, m.pos, MemberAccess(expr, m.node.value)))
    ELSE Ok(pos, expr)

parse_postfix(toks, pos) ==
    Bind(parse_primary(toks, pos), LAMBDA p :
    parse_postfix_loop(toks, p.pos, p.node))

parse_unary(toks, pos) ==
    IF match_token(toks, pos, {"NOT", "MINUS"})
    THEN Bind(parse_unary(toks, advance(toks, pos)), LAMBDA o :
         Ok(o.pos, UnaryOp(current_token(toks, pos).value, o.node)))
    ELSE parse_postfix(toks, pos)

\* the levels with addition below comparison
level_tokens_swapped ==
    <<{"OR"}, {"AND"}, {"EQUAL", "NOT_EQUAL"}, {"PLUS", "MINUS"},
      {"LESS", "LESS_EQUAL", "GREATER", "GREATER_EQUAL"},
      {"MULTIPLY", "DIVIDE", "MODULO"}>>

\* the token types each binary level loops on, lowest precedence first:
\* parse_logical_or, parse_logical_and, parse_equality, parse_comparison,
\* parse_addition, parse_multiplication
level_tokens ==
    <<{"OR"}, {"AND"}, {"EQUAL", "NOT_EQUAL"},
      {"LESS", "LESS_EQUAL", "GREATER", "GREATER_EQUAL"},
      {"PLUS", "MINUS"}, {"MULTIPLY", "DIVIDE", "MODULO"}>>

\* the operand parser of a binary level: the next level, or parse_unary
parse_operand(toks, pos, level) ==
    IF level = Len(level_tokens) THEN parse_unary(toks, pos)
    ELSE Bind(parse_operand(toks, pos, level + 1), LAMBDA l :
         parse_binary_loop(toks, l.pos, level + 1, l.node))

\* `while self.match_token(...)` of a binary level
parse_binary_loop(toks, pos, level, expr) ==
    IF match_token(toks, pos, level_tokens[level])
    THEN Bind(parse_operand(toks, advance(toks, pos), level), LAMBDA r :
         parse_binary_loop(toks, r.pos, level,
             BinaryOp(expr, current_token(toks, pos).value, r.node)))
    ELSE Ok(pos, expr)

parse_logical_or(toks, pos) ==
    Bind(parse_operand(toks, pos, 1), LAMBDA l :
    parse_binary_loop(toks, l.pos, 1, l.node))

parse_expression(toks, pos) == parse_logical_or(toks, pos)

parse_expression_statement(toks, pos) ==
    Bind(parse_expression(toks, pos), LAMBDA e :
    Ok(e.pos, ExpressionStatement(e.node)))

parse_let_statement(toks, pos) ==
    Bind(expect_token(toks, pos, "LET"), LAMBDA l :
    Bind(expect_token(toks, l.pos, "IDENTIFIER"), LAMBDA n :
    Bind(IF match_token(toks, n.pos, {"COLON"})
         THEN Bind(expect_token(toks, advance(toks, n.pos), "IDENTIFIER"),
                   LAMBDA t : Ok(t.pos, t.node.value))
         ELSE Ok(n.pos, NoneT), LAMBDA a :
    Bind(IF match_token(toks, a.pos, {"ASSIGN"})
         THEN parse_expression(toks, advance(toks, a.pos))
         ELSE Ok(a.pos, NoExpr), LAMBDA v :
    Ok(v.pos, LetStatement(n.node.value, a.node, v.node))))))

\* the parameter loop, `while not self.match_token(RPAREN)`
RECURSIVE parse_parameters(_, _, _)
parse_parameters(toks, pos, parameters) ==
    IF match_token(toks, pos, {"RPAREN"}) THEN Ok(pos, parameters)
    ELSE
      Bind(expect_token(toks, pos, "IDENTIFIER"), LAMBDA n :
      Bind(expect_token(toks, n.pos, "COLON"), LAMBDA c :
      Bind(expect_token(toks, c.pos, "IDENTIFIER"), LAMBDA t :
        LET ps == Append(parameters, Parameter(n.node.value, t.node.value))
        IN IF match_token(toks, t.pos, {"COMMA"})
           THEN Again(pos, advance(toks, t.pos),
                  parse_parameters(toks, advance(toks, t.pos), ps))
           ELSE IF ~match_token(toks, t.pos, {"RPAREN"}) THEN Raise(t.pos)
           ELSE Again(pos, t.pos, parse_parameters(toks, t.pos, ps)))))

\* `{` parse_block_body `}`
parse_braced_body(toks, pos) ==
    Bind(expect_token(toks, pos, "LBRACE"), LAMBDA l :
    Bind(parse_block_body(toks, l.pos, <<>>), LAMBDA b :
    Bind(expect_token(toks, b.pos, "RBRACE"), LAMBDA r :
    Ok(r.pos, b.node))))

parse_function_definition(toks, pos) ==
    Bind(expect_token(toks, pos, "FN"), LAMBDA f :
    Bind(expect_token(toks, f.pos, "IDENTIFIER"), LAMBDA n :
    Bind(expect_token(toks, n.pos, "LPAREN"), LAMBDA l :
    Bind(parse_parameters(toks, l.pos, <<>>), LAMBDA ps :
    Bind(expect_token(toks, ps.pos, "RPAREN"), LAMBDA r :
    Bind(IF match_token(toks, r.pos, {"ARROW"})
         THEN Bind(expect_token(toks, advance(toks, r.pos), "IDENTIFIER"),
                   LAMBDA t : Ok(t.pos, t.node.value))
         ELSE Ok(r.pos, NoneT), LAMBDA rt :
    Bind(parse_braced_body(toks, rt.pos), LAMBDA b :
    Ok(b.pos, FunctionDefinition(n.node.value, ps.node, rt.node,
                                 b.node)))))))))

parse_return_statement(toks, pos) ==
    Bind(expect_token(toks, pos, "RETURN"), LAMBDA r :
    Bind(IF ~match_token(toks, r.pos, {"NEWLINE", "RBRACE", "EOF"})
         THEN parse_expression(toks, r.pos)
         ELSE Ok(r.pos, NoExpr), LAMBDA v :
    Ok(v.pos, ReturnStatement(v.node))))

parse_if_statement(toks, pos) ==
    Bind(expect_token(toks, pos, "IF"), LAMBDA i :
    Bind(parse_expression(toks, i.pos), LAMBDA c :
    Bind(parse_braced_body(toks, c.pos), LAMBDA t :
    IF match_token(toks, t.pos, {"ELSE"})
    THEN Bind(parse_braced_body(toks, advance(toks, t.pos)), LAMBDA e :
         Ok(e.pos, IfStatement(c.node, t.node, TRUE, e.node)))
    ELSE Ok(t.pos, IfStatement(c.node, t.node, FALSE, <<>>)))))

parse_while_statement(toks, pos) ==
    Bind(expect_token(toks, pos, "WHILE"), LAMBDA w :
    Bind(parse_expression(toks, w.pos), LAMBDA c :
    Bind(parse_braced_body(toks, c.pos), LAMBDA b :
    Ok(b.pos, WhileStatement(c.node, b.node)))))

parse_for_statement(toks, pos) ==
    Bind(expect_token(toks, pos, "FOR"), LAMBDA f :
    Bind(expect_token(toks, f.pos, "IDENTIFIER"), LAMBDA v :
    Bind(parse_expression(toks, v.pos), LAMBDA it :
    Bind(parse_braced_body(toks, it.pos), LAMBDA b :
    Ok(b.pos, ForStatement(v.node.value, it.node, b.node))))))

\* the field loop, `while not self.match_token(RBRACE)`
RECURSIVE parse_fields(_, _, _)
parse_fields(toks, pos, fields) ==
    IF match_token(toks, pos, {"RBRACE"}) THEN Ok(pos, fields)
    ELSE
      LET p1 == skip_newlines(toks, pos)
      IN IF match_token(toks, p1, {"RBRACE"}) THEN Ok(p1, fields)
         ELSE
           Bind(expect_token(toks, p1, "IDENTIFIER"), LAMBDA n :
           Bind(expect_token(toks, n.pos, "COLON"), LAMBDA c :
           Bind(expect_token(toks, c.pos, "IDENTIFIER"), LAMBDA t :
             LET p2 == IF match_token(toks, t.pos, {"COMMA"})
                       THEN advance(toks, t.pos) ELSE t.pos
                 p3 == skip_newlines(toks, p2)
             IN Again(pos, p3,
                  parse_fields(toks, p3,
                      Append(fields,
                             StructField(n.node.value, t.node.value)))))))

parse_struct_definition(toks, pos) ==
    Bind(expect_token(toks, pos, "STRUCT"), LAMBDA s :
    Bind(expect_token(toks, s.pos, "IDENTIFIER"), LAMBDA n :
    Bind(expect_token(toks, n.pos, "LBRACE"), LAMBDA l :
    Bind(parse_fields(toks, l.pos, <<>>), LAMBDA fs :
    Bind(expect_token(toks, fs.pos, "RBRACE"), LAMBDA r :
    Ok(r.pos, StructDefinition(n.node.value, fs.node)))))))

parse_import_statement(toks, pos) ==
    Bind(expect_token(toks, pos, "IMPORT"), LAMBDA i :
    Bind(expect_token(toks, i.pos, "IDENTIFIER"), LAMBDA m :
    Bind(IF match_token(toks, m.pos, {"FROM"})
         THEN Bind(expect_token(toks, advance(toks, m.pos), "STRING"),
                   LAMBDA t : Ok(t.pos, t.node.value))
         ELSE Ok(m.pos, NoneT), LAMBDA f :
    Bind(IF match_token(toks, f.pos, {"VERSION"})
         THEN Bind(expect_token(toks, advance(toks, f.pos), "STRING"),
                   LAMBDA t : Ok(t.pos, t.node.value))
         ELSE Ok(f.pos, NoneT), LAMBDA v :
    Ok(v.pos, ImportStatement(m.node.value, f.node, v.node))))))

Dependency(package, version_constraint) ==
    [package |-> package, version_constraint |-> version_constraint]

\* the dependencies loop of parse_package_declaration
RECURSIVE parse_dependencies(_, _, _)
parse_dependencies(toks, pos, dependencies) ==
    IF match_token(toks, pos, {"RBRACE"}) THEN Ok(pos, dependencies)
    ELSE
      LET p1 == skip_newlines(toks, pos)
      IN IF match_token(toks, p1, {"RBRACE"}) THEN Ok(p1, dependencies)
         ELSE
           Bind(expect_token(toks, p1, "STRING"), LAMBDA n :
           Bind(expect_token(toks, n.pos, "VERSION"), LAMBDA v :
           Bind(expect_token(toks, v.pos, "STRING"), LAMBDA c :
             LET p2 == IF match_token(toks, c.pos, {"COMMA"})
                       THEN advance(toks, c.pos) ELSE c.pos
                 p3 == skip_newlines(toks, p2)
             IN Again(pos, p3,
                  parse_dependencies(toks, p3,
                      Append(dependencies,
                             Dependency(n.node.value, c.node.value)))))))

\* the exports loop of parse_package_declaration
RECURSIVE parse_exports(_, _, _)
parse_exports(toks, pos, exports) ==
    IF match_token(toks, pos, {"RBRACE"}) THEN Ok(pos, exports)
    ELSE
      LET p1 == skip_newlines(toks, pos)
      IN IF match_token(toks, p1, {"RBRACE"}) THEN Ok(p1, exports)
         ELSE
           Bind(expect_token(toks, p1, "IDENTIFIER"), LAMBDA n :
             LET p2 == IF match_token(toks, n.pos, {"COMMA"})
                       THEN advance(toks, n.pos) ELSE n.pos
                 p3 == skip_newlines(toks, p2)
             IN Again(pos, p3,
                  parse_exports(toks, p3, Append(exports, n.node.value))))

\* the outer loop of parse_package_declaration,
\* `while not self.match_token(RBRACE)`; the node is the pair
\* (dependencies, exports)
RECURSIVE parse_package_body(_, _, _, _)
parse_package_body(toks, pos, dependencies, exports) ==
    IF match_token(toks, pos, {"RBRACE"})
    THEN Ok(pos, [dependencies |-> dependencies, exports |-> exports])
    ELSE
      LET p1 == skip_newlines(toks, pos)
      IN IF match_token(toks, p1, {"RBRACE"})
         THEN Ok(p1, [dependencies |-> dependencies, exports |-> exports])
         ELSE IF match_token(toks, p1, {"DEPENDENCIES"}) THEN
           Bind(expect_token(toks, advance(toks, p1), "LBRACE"), LAMBDA l :
           Bind(parse_dependencies(toks, l.pos, dependencies), LAMBDA d :
           Bind(expect_token(toks, d.pos, "RBRACE"), LAMBDA r :
           Again(pos, r.pos,
             parse_package_body(toks, r.pos, d.node, exports)))))
         ELSE IF match_token(toks, p1, {"EXPORTS"}) THEN
           Bind(expect_token(toks, advance(toks, p1), "LBRACE"), LAMBDA l :
           Bind(parse_exports(toks, l.pos, exports), LAMBDA e :
           Bind(expect_token(toks, e.pos, "RBRACE"), LAMBDA r :
           Again(pos, r.pos,
             parse_package_body(toks, r.pos, dependencies, e.node)))))
         ELSE Again(pos, p1,
                parse_package_body(toks, p1, dependencies, exports))

parse_package_declaration(toks, pos) ==
    Bind(expect_token(toks, pos, "PACKAGE"), LAMBDA p :
    Bind(expect_token(toks, p.pos, "IDENTIFIER"), LAMBDA n :
    Bind(expect_token(toks, n.pos, "VERSION"), LAMBDA k :
    Bind(expect_token(toks, k.pos, "STRING"), LAMBDA v :
    Bind(expect_token(toks, v.pos, "LBRACE"), LAMBDA l :
    Bind(parse_package_body(toks, l.pos, <<>>, <<>>), LAMBDA b :
    Bind(expect_token(toks, b.pos, "RBRACE"), LAMBDA r :
    Ok(r.pos, PackageDeclaration(n.node.value, v.node.value,
                                 b.node.dependencies, b.node.exports)))))))))

parse_block(toks, pos) ==
    Bind(parse_braced_body(toks, pos), LAMBDA b : Ok(b.pos, Block(b.node)))

\* `while not self.match_token(RBRACE, EOF)`
parse_block_body(toks, pos, statements) ==
    IF match_token(toks, pos, {"RBRACE", "EOF"}) THEN Ok(pos, statements)
    ELSE
      LET p1 == skip_newlines(toks, pos)
      IN IF match_token(toks, p1, {"RBRACE", "EOF"}) THEN Ok(p1, statements)
         ELSE Bind(parse_statement(toks, p1), LAMBDA s :
              Again(pos, s.pos,
                parse_block_body(toks, s.pos, Append(statements, s.node))))

parse_statement(toks, pos) ==
    LET type == current_token(toks, pos).type
    IN CASE type = NoneT -> Ok(pos, NoExpr)
         [] type = "LET" -> parse_let_statement(toks, pos)
         [] type = "FN" -> parse_function_definition(toks, pos)
         [] type = "RETURN" -> parse_return_statement(toks, pos)
         [] type = "IF" -> parse_if_statement(toks, pos)
         [] type = "WHILE" -> parse_while_statement(toks, pos)
         [] type = "FOR" -> parse_for_statement(toks, pos)
         [] type = "STRUCT" -> parse_struct_definition(toks, pos)
         [] type = "IMPORT" -> parse_import_statement(toks, pos)
         [] type = "PACKAGE" -> parse_package_declaration(toks, pos)
         [] type = "LBRACE" -> parse_block(toks, pos)
         [] OTHER -> parse_expression_statement(toks, pos)

\* Parser.parse: `while self.current_token() and type != EOF`
RECURSIVE parse(_, _, _)
parse(toks, pos, statements) ==
    IF current_token(toks, pos).type \in {NoneT, "EOF"}
    THEN Ok(pos, statements)
    ELSE
      LET p1 == skip_newlines(toks, pos)
      IN IF current_token(toks, p1).type \in {NoneT, "EOF"}
         THEN Again(pos, p1, parse(toks, p1, statements))
         ELSE Bind(parse_statement(toks, p1), LAMBDA s :
              Again(pos, s.pos,
                parse(toks, s.pos,
                      IF s.node # NoExpr THEN Append(statements, s.node)
                      ELSE statements)))

\* Parser.__init__: WHITESPACE and COMMENT tokens are dropped
RECURSIVE filter_trivia(_)
filter_trivia(toks) ==
    IF toks = <<>> THEN <<>>
    ELSE IF Head(toks).type \in {"WHITESPACE", "COMMENT"}
    THEN filter_trivia(Tail(toks))
    ELSE <<Head(toks)>> \o filter_trivia(Tail(toks))

\* Parser(tokens).parse()
Parse(toks) == parse(filter_trivia(toks), 1, <<>>)

-----------------------------------------------------------------------------
(* Lexer: src/src/lexer.py.  A Python str is the sequence of its           *)
(* characters, a position is 0-based as in the source, a Lexer is the      *)
(* record of its source, position and tokens together with how tokenize    *)
(* stands: "running", "returned" or "LexerError" (error holds the message  *)
(* pieces).  Token.line, Token.column and the Lexer's line and column      *)
(* only label diagnostics and are left out.                                *)

digits == {"0", "1", "2", "3", "4", "5", "6", "7", "8", "9"}

letters ==
    {"a", "b", "c", "d", "e", "f", "g", "h", "i", "j", "k", "l", "m",
     "n", "o", "p", "q", "r", "s", "t", "u", "v", "w", "x", "y", "z",
     "A", "B", "C", "D", "E", "F", "G", "H", "I", "J", "K", "L", "M",
     "N", "O", "P", "Q", "R", "S", "T", "U", "V", "W", "X", "Y", "Z"}

isdigit(c) == c \in digits

isalpha(c) == c \in letters

isalnum(c) == isalpha(c) \/ isdigit(c)

\* ''.join(chars): the characters as one lexeme
RECURSIVE str_of(_)
str_of(chars) ==
    IF chars = <<>> THEN "" ELSE Head(chars) \o str_of(Tail(chars))

keywords ==
    ("let" :> "LET") @@ ("fn" :> "FN") @@ ("struct" :> "STRUCT")
    @@ ("enum" :> "ENUM") @@ ("match" :> "MATCH") @@ ("if" :> "IF")
    @@ ("else" :> "ELSE") @@ ("for" :> "FOR") @@ ("while" :> "WHILE")
    @@ ("return" :> "RETURN") @@ ("import" :> "IMPORT")
    @@ ("from" :> "FROM") @@ ("package" :> "PACKAGE")
    @@ ("version" :> "VERSION") @@ ("dependencies" :> "DEPENDENCIES")
    @@ ("exports" :> "EXPORTS") @@ ("true" :> "BOOLEAN")
    @@ ("false" :> "BOOLEAN")

single_char_tokens ==
    ("+" :> "PLUS") @@ ("-" :> "MINUS") @@ ("*" :> "MULTIPLY")
    @@ ("/" :> "DIVIDE") @@ ("%" :> "MODULO") @@ ("=" :> "ASSIGN")
    @@ ("<" :> "LESS") @@ (">" :> "GREATER") @@ ("!" :> "NOT")
    @@ ("(" :> "LPAREN") @@ (")" :> "RPAREN") @@ ("{" :> "LBRACE")
    @@ ("}" :> "RBRACE") @@ ("[" :> "LBRACKET") @@ ("]" :> "RBRACKET")
    @@ (";" :> "SEMICOLON") @@ ("," :> "COMMA") @@ ("." :> "DOT")
    @@ (":" :> "COLON")

\* `if char == a and self.peek_char() == b`, in the order of the source
two_char_tokens ==
    <<<<"=", "=", "EQUAL">>, <<"!", "=", "NOT_EQUAL">>,
      <<"<", "=", "LESS_EQUAL">>, <<">", "=", "GREATER_EQUAL">>,
      <<"-", ">", "ARROW">>, <<"&", "&", "AND">>, <<"|", "|", "OR">>>>

Lexer(source) ==
    [pc |-> "running", source |-> source, position |-> 0, tokens |-> <<>>,
     error |-> <<>>]

current_char(source, position) ==
    IF position >= Len(source) THEN NoneT ELSE source[position + 1]

peek_char(source, position) == current_char(source, position + 1)

Lexer_advance(source, position) ==
    IF position < Len(source) THEN position + 1 ELSE position

RECURSIVE skip_whitespace(_, _)
skip_whitespace(source, position) ==
    IF current_char(source, position) \in {" ", "\t", "\r"}
    THEN skip_whitespace(source, Lexer_advance(source, position))
    ELSE position

\* the character an escape sequence adds to the value of a string
escaped(next_char, quote_char) ==
    CASE next_char = "n" -> <<"\n">>
      [] next_char = "t" -> <<"\t">>
      [] next_char = "r" -> <<"\r">>
      [] next_char = NoneT -> <<>>
      [] OTHER -> <<next_char>>

\* the while loop of read_string, then the closing quote
RECURSIVE read_string_loop(_, _, _, _)
read_string_loop(source, position, quote_char, value) ==
    LET char == current_char(source, position) IN
    IF char # NoneT /\ char # quote_char
    THEN IF char = "\\"
         THEN LET after == Lexer_advance(source, position) IN
              read_string_loop(source, Lexer_advance(source, after),
                  quote_char,
                  value \o escaped(current_char(source, after), quote_char))
         ELSE read_string_loop(source, Lexer_advance(source, position),
                  quote_char, value \o <<char>>)
    ELSE IF char = NoneT
         THEN [raised |-> TRUE, position |-> position, value |-> value]
         ELSE [raised |-> FALSE,
               position |-> Lexer_advance(source, position), value |-> value]

read_string(source, position) ==
    read_string_loop(source, Lexer_advance(source, position),
                     current_char(source, position), <<>>)

RECURSIVE read_number_loop(_, _, _, _)
read_number_loop(source, position, value, is_float) ==
    LET char == current_char(source, position) IN
    IF char # NoneT /\ (isdigit(char) \/ char = ".")
          /\ ~(char = "." /\ is_float)
    THEN read_number_loop(source, Lexer_advance(source, position),
             value \o <<char>>, is_float \/ char = ".")
    ELSE [position |-> position, value |-> value,
          type |-> IF is_float THEN "FLOAT" ELSE "INTEGER"]

read_number(source, position) ==
    read_number_loop(source, position, <<>>, FALSE)

RECURSIVE read_identifier_loop(_, _, _)
read_identifier_loop(source, position, value) ==
    LET char == current_char(source, position) IN
    IF char # NoneT /\ (isalnum(char) \/ char \in {"_", "-"})
    THEN read_identifier_loop(source, Lexer_advance(source, position),
             value \o <<char>>)
    ELSE [position |-> position, value |-> value]

read_identifier(source, position) ==
    read_identifier_loop(source, position, <<>>)

RECURSIVE read_comment_loop(_, _, _)
read_comment_loop(source, position, value) ==
    LET char == current_char(source, position) IN
    IF char # NoneT /\ char # "\n"
    THEN read_comment_loop(source, Lexer_advance(source, position),
             value \o <<char>>)
    ELSE [position |-> position, value |-> value]

read_comment(source, position) ==
    read_comment_loop(source,
        Lexer_advance(source, Lexer_advance(source, position)), <<>>)

\* the two-character operators that start at position
two_char_matches(source, position) ==
    {i \in 1..Len(two_char_tokens) :
        /\ current_char(source, position) = two_char_tokens[i][1]
        /\ peek_char(source, position) = two_char_tokens[i][2]}

\* one iteration of the while loop of tokenize
tokenize_iteration(lx) ==
    LET source == lx.source
        position == lx.position
        char == current_char(source, position)
        emit(type, value, pos) ==
            [lx EXCEPT !.tokens = Append(@, Token(type, value)),
                       !.position = pos]
    IN
    CASE char \in {" ", "\t", "\r"} ->
           [lx EXCEPT !.position = skip_whitespace(source, position)]
      [] char = "\n" ->
           emit("NEWLINE", <<char>>, Lexer_advance(source, position))
      [] char = "/" /\ peek_char(source, position) = "/" ->
           LET r == read_comment(source, position) IN
           emit("COMMENT", r.value, r.position)
      [] char \in {"\"", "'"} ->
           LET r == read_string(source, position) IN
           IF r.raised
           THEN [lx EXCEPT !.pc = "LexerError", !.position = r.position,
                           !.error = <<"Unterminated string literal">>]
           ELSE emit("STRING", r.value, r.position)
      [] isdigit(char) ->
           LET r == read_number(source, position) IN
           emit(r.type, r.value, r.position)
      [] isalpha(char) \/ char = "_" ->
           LET r == read_identifier(source, position)
               identifier == str_of(r.value)
           IN emit(IF identifier \in DOMAIN keywords
                   THEN keywords[identifier] ELSE "IDENTIFIER",
                   r.value, r.position)
      [] OTHER ->
           LET two == two_char_matches(source, position) IN
           IF two # {}
           THEN LET op == two_char_tokens[CHOOSE i \in two : TRUE] IN
                emit(op[3], <<op[1], op[2]>>,
                     Lexer_advance(source, Lexer_advance(source, position)))
           ELSE IF char \in DOMAIN single_char_tokens
           THEN emit(single_char_tokens[char], <<char>>,
                     Lexer_advance(source, position))
           ELSE [lx EXCEPT !.pc = "LexerError",
                           !.error = <<"Unexpected character: '", char, "'">>]

\* tokenize without its last statement but one
tokenize_return_without_eof(lx) == [lx EXCEPT !.pc = "returned"]

\* the end of tokenize: the EOF token
tokenize_return(lx) ==
    [lx EXCEPT !.tokens = Append(@, Token("EOF", <<>>)), !.pc = "returned"]

RECURSIVE tokenize(_)
tokenize(lx) ==
    IF lx.pc # "running" THEN lx
    ELSE IF lx.position < Len(lx.source)
    THEN tokenize(tokenize_iteration(lx))
    ELSE tokenize_return(lx)

lex_source(source) == tokenize(Lexer(source))

\* the tokens with their lexemes as the strings the parser compares
RECURSIVE lexemes(_)
lexemes(toks) ==
    IF toks = <<>> THEN <<>>
    ELSE <<Token(Head(toks).type, str_of(Head(toks).value))>>
         \o lexemes(Tail(toks))

-----------------------------------------------------------------------------
(* NeoPaquetCompiler.compile_source: src/src/compiler.py.  The phases log  *)
(* holds the numbers of the "Phase n" lines printed by the call; an entry  *)
(* of errors or warnings is the sequence of the pieces of its f-string     *)
(* (the text of a ParseError is left out).                                 *)

\* errors and warnings are the object's lists; source and check_only are the
\* arguments of the running call; raised is the exception class the call
\* caught, semantic_errors the list check_errors gave it, returned the
\* values the calls have returned so far
NeoPaquetCompiler ==
    [pc |-> "idle", errors |-> <<>>, warnings |-> <<>>, source |-> <<>>,
     check_only |-> FALSE, phases |-> <<>>, raised |-> NoneT,
     semantic_errors |-> <<>>, returned |-> <<>>]

\* parse_source(source): Lexer(source).tokenize(), then Parser(tokens).parse()
parse_source_text(source) ==
    LET lx == lex_source(source) IN
    IF lx.pc = "LexerError"
    THEN [pos |-> lx.position, status |-> "LexerError", node |-> NoExpr]
    ELSE Parse(lexemes(lx.tokens))

\* the pieces of diagnostics that hold "unused" in some case
unused_words == {"Unused variable: ", "unused", "Unused"}

\* "unused" in error.message.lower()
mentions_unused(message) ==
    \E i \in 1..Len(message) : message[i] \in unused_words

\* `error.type in [ErrorType.SEMANTIC_ERROR] and "unused" in ...`
is_warning(error) ==
    error.type = "SEMANTIC_ERROR" /\ mentions_unused(error.message)

\* the loop over semantic_errors with the second branch taken for every one
RECURSIVE categorized_errors_with_warnings(_)
categorized_errors_with_warnings(semantic_errors) ==
    IF semantic_errors = <<>> THEN <<>>
    ELSE <<<<"Error: ">> \o Head(semantic_errors).message>>
         \o categorized_errors_with_warnings(Tail(semantic_errors))

\* the loop over semantic_errors: what goes to self.errors
RECURSIVE categorized_errors(_)
categorized_errors(semantic_errors) ==
    IF semantic_errors = <<>> THEN <<>>
    ELSE (IF is_warning(Head(semantic_errors)) THEN <<>>
          ELSE <<<<"Error: ">> \o Head(semantic_errors).message>>)
         \o categorized_errors(Tail(semantic_errors))

\* the loop over semantic_errors: what goes to self.warnings
RECURSIVE categorized_warnings(_)
categorized_warnings(semantic_errors) ==
    IF semantic_errors = <<>> THEN <<>>
    ELSE (IF is_warning(Head(semantic_errors))
          THEN <<<<"Warning: ">> \o Head(semantic_errors).message>>
          ELSE <<>>)
         \o categorized_warnings(Tail(semantic_errors))

\* `return value` of compile_source: its arguments go out of scope
compile_return(c, value) ==
    [c EXCEPT !.pc = "idle", !.returned = Append(@, value),
              !.source = <<>>, !.check_only = FALSE]

\* compile_source from the loop over semantic_errors, without
\* `if error_count > 0: ... return False`
semantic_analysis_unchecked(c, semantic_errors) ==
    [c EXCEPT !.phases = Append(@, 3),
              !.semantic_errors = semantic_errors,
              !.errors = @ \o categorized_errors(semantic_errors),
              !.warnings = @ \o categorized_warnings(semantic_errors),
              !.pc = "phase 4"]

\* compile_source from the loop over semantic_errors up to Phase 4
semantic_analysis(c, semantic_errors) ==
    LET sorted ==
          [c EXCEPT !.phases = Append(@, 3),
                    !.semantic_errors = semantic_errors,
                    !.errors = @ \o categorized_errors(semantic_errors),
                    !.warnings = @ \o categorized_warnings(semantic_errors)]
        error_count == Len(sorted.errors) - Len(c.errors)
    IN IF error_count > 0 THEN compile_return(sorted, FALSE)
       ELSE IF ~c.check_only THEN [sorted EXCEPT !.pc = "phase 4"]
       ELSE compile_return(sorted, TRUE)

\* an except clause of compile_source
compile_except(c, class, message) ==
    compile_return([c EXCEPT !.errors = Append(@, message),
                             !.raised = class], FALSE)

-----------------------------------------------------------------------------
(* The legacy lexer: src/lexer.py.  _peek returns "\0" past the end of the *)
(* source; that character is NUL here.  A Token is its type and value (line *)
(* and col only label it).  tokenize stands at "running", "returned",      *)
(* "SyntaxError" or "hang": an iteration of its loop that neither moves    *)
(* pos nor leaves the loop is repeated for ever.                           *)

NUL == "NUL"

KEYWORDS ==
    {"src", "run", "Task", "complete", "Start", "setup", "done", "@func",
     "go", "job", "operation", "if", "else", "loop", "try", "catch",
     "isolate", "clean", "retry", "dismiss", "print", "return"}

SYMBOLS == {"(", ")", "{", "}", "[", "]", "<", ">", ":", ";", "|"}

OPERATORS ==
    {"+", "-", "*", "/", "%", "=", "==", "!=", "<=", ">=", "&&", "||", "->"}

\* the characters with str.isspace
whitespace == {" ", "\t", "\n", "\r", "\f"}

legacy_Lexer(source) ==
    [pc |-> "running", source |-> source, pos |-> 0, tokens |-> <<>>]

legacy_peek(source, pos, k) ==
    IF pos + k < Len(source) THEN source[pos + k + 1] ELSE NUL

\* the position after `while self._peek() <in chars>: self._advance()`
RECURSIVE legacy_advance_while(_, _, _)
legacy_advance_while(source, pos, chars) ==
    IF legacy_peek(source, pos, 0) \in chars
    THEN legacy_advance_while(source, pos + 1, chars)
    ELSE pos

\* the position after `while self._peek() not in chars: self._advance()`
RECURSIVE legacy_advance_until(_, _, _)
legacy_advance_until(source, pos, chars) ==
    IF legacy_peek(source, pos, 0) \notin chars
    THEN legacy_advance_until(source, pos + 1, chars)
    ELSE pos

legacy_skip_whitespace(source, pos) ==
    legacy_advance_while(source, pos, whitespace)

\* _skip_comment: whether a comment was skipped and where it ended
legacy_skip_comment(source, pos) ==
    IF legacy_peek(source, pos, 0) = "-" /\ legacy_peek(source, pos, 1) = "-"
    THEN [skipped |-> TRUE,
          pos |-> legacy_advance_until(source, pos, {"\n", NUL})]
    ELSE IF legacy_peek(source, pos, 0) = ";"
    THEN LET end == legacy_advance_until(source, pos + 1, {";", NUL})
         IN [skipped |-> TRUE,
             pos |-> IF legacy_peek(source, end, 0) = ";"
                     THEN end + 1 ELSE end]
    ELSE [skipped |-> FALSE, pos |-> pos]

\* self.source[start:pos]
slice(source, start, pos) ==
    str_of(SubSeq(source, start + 1, IF pos <= Len(source) THEN pos
                                     ELSE Len(source)))

legacy_string(source, pos) ==
    LET start == pos + 1
        end == legacy_advance_until(source, start, {"\"", NUL})
    IN [value |-> slice(source, start, end), pos |-> end + 1]

legacy_number(source, pos) ==
    LET end == legacy_advance_while(source, pos, letters \cup digits)
    IN [value |-> slice(source, pos, end), pos |-> end]

legacy_identifier(source, pos) ==
    LET end == legacy_advance_while(source, pos,
                   letters \cup digits \cup {"_", "-"})
    IN [value |-> slice(source, pos, end), pos |-> end]

\* one iteration of the while loop of tokenize
legacy_tokenize_iteration(lx) ==
    LET source == lx.source
        start == legacy_skip_whitespace(source, lx.pos)
        comment == legacy_skip_comment(source, start)
        ch == legacy_peek(source, start, 0)
        two == ch \o legacy_peek(source, start, 1)
        emit(type, value, pos) ==
            [lx EXCEPT !.tokens = Append(@, Token(type, value)),
                       !.pos = pos,
                       !.pc = IF pos = lx.pos THEN "hang" ELSE "running"]
    IN
    IF comment.skipped THEN [lx EXCEPT !.pos = comment.pos]
    ELSE IF ch = NUL THEN [lx EXCEPT !.pos = start, !.pc = "break"]
    ELSE IF ch = "\""
    THEN LET r == legacy_string(source, start) IN
         emit("STRING", r.value, r.pos)
    ELSE IF isdigit(ch) \/ ch \in {"a", "b"}
    THEN LET r == legacy_number(source, start) IN
         emit("NUMBER", r.value, r.pos)
    ELSE IF isalpha(ch) \/ ch = "@" \/ ch = "<" \/ ch = ">"
    THEN LET r == legacy_identifier(source, start) IN
         emit(IF r.value \in KEYWORDS THEN "KEYWORD" ELSE "IDENTIFIER",
              r.value, r.pos)
    ELSE IF ch \in SYMBOLS THEN emit("SYMBOL", ch, start + 1)
    ELSE IF two \in OPERATORS THEN emit("OPERATOR", two, start + 2)
    ELSE IF ch \in OPERATORS THEN emit("OPERATOR", ch, start + 1)
    ELSE [lx EXCEPT !.pos = start, !.pc = "SyntaxError"]

\* the end of tokenize: the EOF token
legacy_tokenize_return(lx) ==
    [lx EXCEPT !.tokens = Append(@, Token("EOF", "")), !.pc = "returned"]

RECURSIVE legacy_tokenize(_)
legacy_tokenize(lx) ==
    IF lx.pc = "break" THEN legacy_tokenize_return(lx)
    ELSE IF lx.pc # "running" THEN lx
    ELSE IF lx.pos < Len(lx.source)
    THEN legacy_tokenize(legacy_tokenize_iteration(lx))
    ELSE legacy_tokenize_return(lx)

-----------------------------------------------------------------------------
(* The legacy parser: src/Parser.py.  A position is 0-based as in the      *)
(* source.  An ASTNode is the record of its kind, value (NoneT for None)   *)
(* and children.  A parsing function returns the position it stopped at,   *)
(* "ok" or "SyntaxError", and the node (or token) it returns.              *)

NODE_MAP ==
    "PROGRAM" :> "0_PROGRAM" @@ "DECL" :> "1_DECL" @@ "STMT" :> "2_STMT" @@
    "EXPR" :> "3_EXPR" @@ "IDENT" :> "4_IDENT" @@ "LITERAL" :> "5_LITERAL" @@
    "FUNC" :> "6_FUNC" @@ "BLOCK" :> "7_BLOCK" @@ "TRY" :> "8_TRY" @@
    "CATCH" :> "9_CATCH" @@ "LOOP" :> "a_LOOP" @@ "IF" :> "b_IF"

ASTNode(kind, value, children) ==
    [kind |-> kind, value |-> value, children |-> children]

SyntaxError(pos) == [pos |-> pos, status |-> "SyntaxError", node |-> NoExpr]

legacy_peek_token(toks, pos) ==
    IF pos < Len(toks) THEN toks[pos + 1] ELSE Token("EOF", "")

\* _expect(type_, value): the token is refused only when its type differs
\* and no value is given or its value differs too
legacy_expect(toks, pos, type, value) ==
    LET tok == legacy_peek_token(toks, pos) IN
    IF tok.type # type /\ (value = NoneT \/ tok.value # value)
    THEN SyntaxError(pos + 1)
    ELSE Ok(pos + 1, tok)

\* consecutive _expect calls; node is the list of the tokens they return
RECURSIVE legacy_expect_all(_, _, _, _)
legacy_expect_all(toks, pos, expected, got) ==
    IF expected = <<>> THEN Ok(pos, got)
    ELSE Bind(legacy_expect(toks, pos, Head(expected)[1], Head(expected)[2]),
              LAMBDA r : legacy_expect_all(toks, r.pos, Tail(expected),
                                           Append(got, r.node)))

legacy_parse_expr(toks, pos) ==
    LET tok == legacy_peek_token(toks, pos) IN
    CASE tok.type \in {"NUMBER", "STRING"} ->
           Ok(pos + 1, ASTNode(NODE_MAP["LITERAL"], tok.value, <<>>))
      [] tok.type = "IDENTIFIER" ->
           Ok(pos + 1, ASTNode(NODE_MAP["IDENT"], tok.value, <<>>))
      [] OTHER -> SyntaxError(pos + 1)

RECURSIVE legacy_parse_stmt(_, _)
RECURSIVE legacy_parse_block_loop(_, _, _)

\* parse_block: the statements up to a token that closes a block
legacy_parse_block_loop(toks, pos, stmts) ==
    IF legacy_peek_token(toks, pos).value
         \notin {"}", "done", "complete", "catch", "EOF"}
    THEN Bind(legacy_parse_stmt(toks, pos),
              LAMBDA r : legacy_parse_block_loop(toks, r.pos,
                                                 Append(stmts, r.node)))
    ELSE Ok(pos, ASTNode(NODE_MAP["BLOCK"], NoneT, stmts))

legacy_parse_block(toks, pos) == legacy_parse_block_loop(toks, pos, <<>>)

\* `{` parse_block `}`
legacy_braced_block(toks, pos) ==
    Bind(legacy_expect(toks, pos, "SYMBOL", "{"), LAMBDA open :
    Bind(legacy_parse_block(toks, open.pos), LAMBDA body :
    Bind(legacy_expect(toks, body.pos, "SYMBOL", "}"), LAMBDA close :
    Ok(close.pos, body.node))))

legacy_parse_print(toks, pos) ==
    Bind(legacy_expect_all(toks, pos,
           <<<<"KEYWORD", "print">>, <<"SYMBOL", "[">>, <<"STRING", NoneT>>,
             <<"SYMBOL", "]">>>>, <<>>),
         LAMBDA r : Ok(r.pos, ASTNode(NODE_MAP["STMT"], "print",
                         <<ASTNode(NODE_MAP["LITERAL"], r.node[3].value, <<>>)>>)))

legacy_parse_if(toks, pos) ==
    Bind(legacy_expect(toks, pos, "KEYWORD", "if"), LAMBDA kw :
    Bind(legacy_parse_expr(toks, kw.pos), LAMBDA cond :
    Bind(legacy_braced_block(toks, cond.pos), LAMBDA then_block :
    IF legacy_peek_token(toks, then_block.pos).value = "else"
    THEN Bind(legacy_expect(toks, then_block.pos, "KEYWORD", "else"),
              LAMBDA else_kw :
         Bind(legacy_braced_block(toks, else_kw.pos), LAMBDA else_block :
         Ok(else_block.pos, ASTNode(NODE_MAP["IF"], NoneT,
              <<cond.node, then_block.node, else_block.node>>))))
    ELSE Ok(then_block.pos, ASTNode(NODE_MAP["IF"], NoneT,
              <<cond.node, then_block.node>>)))))

legacy_parse_loop(toks, pos) ==
    Bind(legacy_expect_all(toks, pos,
           <<<<"KEYWORD", "loop">>, <<"STRING", NoneT>>>>, <<>>), LAMBDA r :
    Bind(legacy_braced_block(toks, r.pos), LAMBDA body :
    Ok(body.pos, ASTNode(NODE_MAP["LOOP"], r.node[2].value, <<body.node>>))))

legacy_parse_trycatch(toks, pos) ==
    Bind(legacy_expect(toks, pos, "KEYWORD", "try"), LAMBDA kw :
    Bind(legacy_braced_block(toks, kw.pos), LAMBDA try_block :
    Bind(legacy_expect(toks, try_block.pos, "KEYWORD", "catch"),
         LAMBDA catch_kw :
    Bind(legacy_braced_block(toks, catch_kw.pos), LAMBDA catch_block :
    Ok(catch_block.pos, ASTNode(NODE_MAP["TRY"], NoneT,
         <<try_block.node,
           ASTNode(NODE_MAP["CATCH"], NoneT, <<catch_block.node>>)>>))))))

legacy_parse_stmt(toks, pos) ==
    LET tok == legacy_peek_token(toks, pos) IN
    CASE tok.value = "print" -> legacy_parse_print(toks, pos)
      [] tok.value = "if" -> legacy_parse_if(toks, pos)
      [] tok.value = "loop" -> legacy_parse_loop(toks, pos)
      [] tok.value = "try" -> legacy_parse_trycatch(toks, pos)
      [] OTHER ->
           Bind(legacy_expect_all(toks, pos,
                  <<<<"IDENTIFIER", NoneT>>, <<"OPERATOR", "=">>>>, <<>>),
                LAMBDA r :
           Bind(legacy_parse_expr(toks, r.pos), LAMBDA expr :
           Ok(expr.pos, ASTNode(NODE_MAP["STMT"], "assign",
                <<ASTNode(NODE_MAP["IDENT"], r.node[1].value, <<>>),
                  expr.node>>))))


legacy_parse_src(toks, pos) ==
    Bind(legacy_expect_all(toks, pos,
           <<<<"KEYWORD", "src">>, <<"SYMBOL", "(">>, <<"SYMBOL", ")">>,
             <<"STRING", NoneT>>>>, <<>>), LAMBDA r :
    Bind(legacy_braced_block(toks, r.pos), LAMBDA body :
    Bind(legacy_expect(toks, body.pos, "KEYWORD", "run"), LAMBDA run :
    Ok(run.pos, ASTNode(NODE_MAP["DECL"], "src",
         <<ASTNode("FORMAT", r.node[4].value, <<>>), body.node>>)))))

legacy_parse_task(toks, pos) ==
    Bind(legacy_expect_all(toks, pos,
           <<<<"KEYWORD", "Task">>, <<"SYMBOL", "<">>,
             <<"IDENTIFIER", NoneT>>, <<"SYMBOL", ">">>, <<"STRING", NoneT>>,
             <<"SYMBOL", "|">>, <<"STRING", NoneT>>, <<"OPERATOR", "->">>,
             <<"KEYWORD", "complete">>>>, <<>>), LAMBDA r :
    Ok(r.pos, ASTNode(NODE_MAP["DECL"], "task",
         <<ASTNode(NODE_MAP["IDENT"], r.node[3].value, <<>>),
           ASTNode(NODE_MAP["LITERAL"], r.node[5].value, <<>>),
           ASTNode(NODE_MAP["LITERAL"], r.node[7].value, <<>>)>>)))

\* parse_func: parse_block follows `go` at once
legacy_parse_func(toks, pos) ==
    Bind(legacy_expect_all(toks, pos,
           <<<<"KEYWORD", "@func">>, <<"SYMBOL", "(">>, <<"STRING", NoneT>>,
             <<"SYMBOL", ")">>, <<"SYMBOL", "[">>, <<"IDENTIFIER", NoneT>>,
             <<"SYMBOL", "]">>, <<"KEYWORD", "go">>>>, <<>>), LAMBDA r :
    Bind(legacy_parse_block(toks, r.pos), LAMBDA body :
    Ok(body.pos, ASTNode(NODE_MAP["FUNC"], r.node[3].value,
         <<ASTNode(NODE_MAP["IDENT"], r.node[6].value, <<>>), body.node>>))))

legacy_parse_start(toks, pos) ==
    Bind(legacy_expect_all(toks, pos,
           <<<<"KEYWORD", "Start">>, <<"SYMBOL", ":">>, <<"KEYWORD", "setup">>,
             <<"SYMBOL", "(">>, <<"STRING", NoneT>>, <<"SYMBOL", ")">>,
             <<"KEYWORD", "done">>, <<"SYMBOL", "{">>, <<"SYMBOL", "}">>>>,
           <<>>), LAMBDA r :
    Ok(r.pos, ASTNode(NODE_MAP["DECL"], "start",
         <<ASTNode(NODE_MAP["LITERAL"], r.node[5].value, <<>>)>>)))

legacy_parse_decl(toks, pos) ==
    LET tok == legacy_peek_token(toks, pos) IN
    CASE tok.value = "src" -> legacy_parse_src(toks, pos)
      [] tok.value = "Task" -> legacy_parse_task(toks, pos)
      [] tok.value = "@func" -> legacy_parse_func(toks, pos)
      [] tok.value = "Start" -> legacy_parse_start(toks, pos)
      [] OTHER -> legacy_parse_stmt(toks, pos)

RECURSIVE legacy_parse_program_loop(_, _, _)
legacy_parse_program_loop(toks, pos, children) ==
    IF legacy_peek_token(toks, pos).type # "EOF"
    THEN Bind(legacy_parse_decl(toks, pos),
              LAMBDA r : legacy_parse_program_loop(toks, r.pos,
                                                   Append(children, r.node)))
    ELSE Ok(pos, ASTNode(NODE_MAP["PROGRAM"], NoneT, children))

legacy_parse_program(toks) == legacy_parse_program_loop(toks, 0, <<>>)

-----------------------------------------------------------------------------
(* The IR generator: src/neopaquet/irgen.py over the nodes and the visitor *)
(* of src/npaquetc/ast.py.  An IRGen is the record of its module's globals *)
(* (functions and global variables in the order of their creation), the    *)
(* block its builder appends to, its symbol tables and the exception that  *)
(* ended the visit.  A function owns at most the block "entry".            *)

\* what an ASTNode of src/Parser.py and one of src/npaquetc/ast.py offer
Parser_ASTNode_attributes == {"kind", "value", "children", "__repr__"}

ast_ASTNode_attributes ==
    {"kind", "value", "children", "__repr__", "add_child", "accept"}

NoValue == [cls |-> "None"]

i32(n) == [cls |-> "Constant", type |-> "i32", value |-> n]

\* a dict as the sequence of its items in insertion order
dict_get(d, key) ==
    IF \E i \in 1..Len(d) : d[i][1] = key
    THEN d[CHOOSE i \in 1..Len(d) : d[i][1] = key][2]
    ELSE NoValue

dict_set(d, key, val) ==
    IF \E i \in 1..Len(d) : d[i][1] = key
    THEN [i \in 1..Len(d) |-> IF d[i][1] = key THEN <<key, val>> ELSE d[i]]
    ELSE Append(d, <<key, val>>)

ir_Function(name, args, var_arg) ==
    [cls |-> "Function", name |-> name, return_type |-> "i32",
     args |-> args, var_arg |-> var_arg, blocks |-> <<>>]

IRGen ==
    [pc |-> "ready",
     globals |-> <<ir_Function("printf", <<"i8*">>, TRUE)>>,
     builder |-> NoValue, func_symtab |-> <<>>, var_symtab |-> <<>>,
     raised |-> NoneT]

ir_raise(g, exception) == [g EXCEPT !.pc = "raised", !.raised = exception]

global_names(g) == {g.globals[i].name : i \in 1..Len(g.globals)}

global_index(g, name) ==
    CHOOSE i \in 1..Len(g.globals) : g.globals[i].name = name

\* ir.Function(self.module, func_ty, name=...), append_basic_block("entry")
\* and ir.IRBuilder(block)
ir_define_function(g, name, args) ==
    IF name \in global_names(g) THEN ir_raise(g, "DuplicatedNameError")
    ELSE [g EXCEPT
            !.globals = Append(@,
               [ir_Function(name, args, FALSE) EXCEPT
                  !.blocks = <<[name |-> "entry", instructions |-> <<>>,
                                is_terminated |-> FALSE]>>]),
            !.builder = [function |-> name, block |-> 1]]

builder_block(g) ==
    g.globals[global_index(g, g.builder.function)].blocks[g.builder.block]

\* IRBuilder._insert
builder_insert(g, instruction) ==
    [g EXCEPT !.globals[global_index(g, g.builder.function)]
                .blocks[g.builder.block].instructions =
                   Append(@, instruction)]

\* IRBuilder.ret: the block must not have a terminator yet
builder_ret(g, val) ==
    IF g.builder = NoValue THEN ir_raise(g, "AttributeError")
    ELSE IF builder_block(g).is_terminated
    THEN ir_raise(g, "AssertionError")
    ELSE [builder_insert(g, [op |-> "ret", value |-> val]) EXCEPT
            !.globals[global_index(g, g.builder.function)]
              .blocks[g.builder.block].is_terminated = TRUE]

\* _emit_print(text)
emit_print(g, text) ==
    LET name == ".str" \o ToString(Len(g.globals))
        cstr == [cls |-> "GlobalVariable", name |-> name,
                 count |-> Len(text) + 1, linkage |-> "internal",
                 global_constant |-> TRUE,
                 initializer |-> <<text, NUL>>]
        gep == [op |-> "getelementptr", value |-> name,
                indices |-> <<0, 0>>]
    IN  IF text = NoneT THEN ir_raise(g, "TypeError")
        ELSE IF name \in global_names(g)
        THEN ir_raise(g, "DuplicatedNameError")
        ELSE IF g.builder = NoValue
        THEN ir_raise([g EXCEPT !.globals = Append(@, cstr)],
                      "AttributeError")
        ELSE builder_insert(
               builder_insert([g EXCEPT !.globals = Append(@, cstr)], gep),
               [op |-> "call", callee |-> "printf", args |-> <<gep>>])

\* int(text, 12).  A text is decoded through the literals of at most
\* MaxDigits characters that int accepts characters from; any other text
\* holds a character that int refuses.
MaxDigits == 2

base12_digits ==
    [c \in {"0", "1", "2", "3", "4", "5", "6", "7", "8", "9"} |->
       CHOOSE n \in 0..9 : ToString(n) = c]
    @@ "a" :> 10 @@ "b" :> 11 @@ "A" :> 10 @@ "B" :> 11

int_chars == DOMAIN base12_digits \cup {"+", "-", "_"} \cup whitespace

RECURSIVE strip(_)
strip(cs) ==
    IF cs = <<>> THEN cs
    ELSE IF Head(cs) \in whitespace THEN strip(Tail(cs))
    ELSE IF cs[Len(cs)] \in whitespace THEN strip(SubSeq(cs, 1, Len(cs) - 1))
    ELSE cs

RECURSIVE base12_value(_, _)
base12_value(cs, acc) ==
    IF cs = <<>> THEN acc
    ELSE IF Head(cs) = "_" THEN base12_value(Tail(cs), acc)
    ELSE base12_value(Tail(cs), acc * 12 + base12_digits[Head(cs)])

ValueError == [ok |-> FALSE, value |-> 0, exception |-> "ValueError"]

\* the value of the characters cs, or ValueError
int12_chars(cs) ==
    LET stripped == strip(cs)
        signed == stripped # <<>> /\ Head(stripped) \in {"+", "-"}
        body == IF signed THEN Tail(stripped) ELSE stripped
        well_formed ==
            /\ body # <<>>
            /\ \A i \in 1..Len(body) :
                 \/ body[i] \in DOMAIN base12_digits
                 \/ /\ body[i] = "_"
                    /\ 1 < i /\ i < Len(body)
                    /\ body[i + 1] # "_"
    IN  IF ~well_formed THEN ValueError
        ELSE [ok |-> TRUE, exception |-> NoneT,
              value |-> IF Head(stripped) = "-" THEN 0 - base12_value(body, 0)
                        ELSE base12_value(body, 0)]

int_texts == UNION {[1..n -> int_chars] : n \in 0..MaxDigits}

int12(text) ==
    IF text = NoneT THEN [ValueError EXCEPT !.exception = "TypeError"]
    ELSE IF \E cs \in int_texts : str_of(cs) = text
    THEN int12_chars(CHOOSE cs \in int_texts : str_of(cs) = text)
    ELSE ValueError

RECURSIVE accept(_, _)
RECURSIVE visit_children(_, _)

\* `for child in node.children: child.accept(self)`, left at an exception
visit_children(g, children) ==
    IF children = <<>> \/ g.pc = "raised" THEN g
    ELSE visit_children(accept(g, Head(children)), Tail(children))

\* the body of a function: children[1], then `ret i32 0` unless the block
\* the builder is at has its terminator
visit_body(g, node) ==
    IF g.pc = "raised" THEN g
    ELSE IF Len(node.children) < 2 THEN ir_raise(g, "IndexError")
    ELSE LET after == accept(g, node.children[2]) IN
         IF after.pc = "raised" THEN after
         ELSE IF builder_block(after).is_terminated THEN after
         ELSE builder_ret(after, i32(0))

gen_main(g, node) == visit_body(ir_define_function(g, "main", <<>>), node)

visit_decl(g, node) == IF node.value = "src" THEN gen_main(g, node) ELSE g

visit_func(g, node) ==
    LET defined == ir_define_function(g, node.value, <<"i32">>) IN
    IF defined.pc = "raised" THEN defined
    ELSE IF node.children = <<>> THEN ir_raise(defined, "IndexError")
    ELSE LET name == node.children[1].value
             arg == [cls |-> "Argument", function |-> node.value,
                     name |-> name]
             named == [defined EXCEPT
                         !.func_symtab = dict_set(@, node.value, node.value),
                         !.globals[Len(defined.globals)].args = <<name>>,
                         !.var_symtab = dict_set(@, name, arg)]
         IN  visit_body(named, node)

visit_stmt(g, node) ==
    CASE node.value = "print" ->
           IF node.children = <<>> THEN ir_raise(g, "IndexError")
           ELSE emit_print(g, node.children[1].value)
      [] node.value = "assign" ->
           IF Len(node.children) < 2 THEN ir_raise(g, "IndexError")
           ELSE LET val == int12(node.children[2].value) IN
                IF val.ok
                THEN [g EXCEPT !.var_symtab =
                        dict_set(@, node.children[1].value, i32(val.value))]
                ELSE ir_raise(g, val.exception)
      [] node.value = "return" ->
           IF node.children = <<>> THEN ir_raise(g, "IndexError")
           ELSE LET ret_val == node.children[1] IN
                IF ret_val.kind = "4_IDENT"
                THEN builder_ret(g, dict_get(g.var_symtab, ret_val.value))
                ELSE LET val == int12(ret_val.value) IN
                     IF val.ok THEN builder_ret(g, i32(val.value))
                     ELSE ir_raise(g, val.exception)
      [] OTHER -> g

\* ASTNode.accept: visit_<kind>, or generic_visit when IRGen has no such
\* method; visit_expr is only reached for the kind 3_EXPR, which it
\* refuses, and a kind without `_` has no second part
accept(g, node) ==
    IF g.pc = "raised" THEN g
    ELSE CASE node.kind = "0_PROGRAM" -> visit_children(g, node.children)
           [] node.kind = "1_DECL" -> visit_decl(g, node)
           [] node.kind = "6_FUNC" -> visit_func(g, node)
           [] node.kind = "7_BLOCK" -> visit_children(g, node.children)
           [] node.kind = "2_STMT" -> visit_stmt(g, node)
           [] node.kind = "3_EXPR" -> ir_raise(g, "NotImplementedError")
           [] node.kind = "FORMAT" -> ir_raise(g, "IndexError")
           [] OTHER -> visit_children(g, node.children)

\* `ast.accept(irgen)` on a node of the class that built the tree
IRGen_accept(g, node, attributes) ==
    IF "accept" \in attributes
    THEN LET visited == accept(g, node) IN
         IF visited.pc = "raised" THEN visited
         ELSE [visited EXCEPT !.pc = "visited"]
    ELSE ir_raise(g, "AttributeError")

-----------------------------------------------------------------------------
(* NASMGen.emit_exe: src/npaquetc/nasmgen.py.  The file system is the set  *)
(* of the paths that exist; what llvmlite, open and clang do with a given  *)
(* IR text and machine is an input.                                        *)

\* the directory tempfile.TemporaryDirectory() makes, and the object file
tmpdir == <<"/", "t", "m", "p", "/", "t", "m", "p", "d", "i", "r">>

obj_file == tmpdir \o <<"/", "o", "u", "t", ".", "o">>

staging == {tmpdir, obj_file}

NASMGen(llvm_ir) ==
    [pc |-> "idle", llvm_ir |-> llvm_ir, exe_path |-> <<>>,
     exe_file |-> <<>>, raised |-> NoneT, returned |-> FALSE]

\* TemporaryDirectory.__exit__, which keeps the directory (a plain mkdtemp)
TemporaryDirectory_exit_keep(files) == files

\* TemporaryDirectory.__exit__: the directory and all it holds are removed
TemporaryDirectory_exit(files) == files \ staging

\* an exception leaves the `with` block
emit_exe_raise(n, exception) ==
    [n EXCEPT !.pc = "raised", !.raised = exception]

endswith(text, suffix) ==
    /\ Len(text) >= Len(suffix)
    /\ SubSeq(text, Len(text) - Len(suffix) + 1, Len(text)) = suffix

\* `exe_path if exe_path.endswith(".exe") else exe_path + ".exe"` on nt,
\* exe_path elsewhere
exe_file_of(os_name, exe_path) ==
    IF os_name = "nt" /\ ~endswith(exe_path, <<".", "e", "x", "e">>)
    THEN exe_path \o <<".", "e", "x", "e">>
    ELSE exe_path

-----------------------------------------------------------------------------
(* auto_fix_common_errors: src/src/compiler.py.  A line is the sequence of *)
(* its characters.                                                         *)

startswith(text, prefix) ==
    Len(text) >= Len(prefix) /\ SubSeq(text, 1, Len(prefix)) = prefix

\* str.find, 1-based, 0 when old does not occur
find(text, old) ==
    LET places == {i \in 1..(Len(text) - Len(old) + 1) :
                     SubSeq(text, i, i + Len(old) - 1) = old}
    IN  IF places = {} THEN 0
        ELSE CHOOSE i \in places : \A j \in places : i <= j

contains(text, old) == find(text, old) # 0

\* text.replace(old, new, 1)
replace_first(text, old, new) ==
    LET i == find(text, old) IN
    IF i = 0 THEN text
    ELSE SubSeq(text, 1, i - 1) \o new
         \o SubSeq(text, i + Len(old), Len(text))

RECURSIVE rstrip(_)
rstrip(text) ==
    IF text # <<>> /\ text[Len(text)] \in whitespace
    THEN rstrip(SubSeq(text, 1, Len(text) - 1))
    ELSE text

\* source.split('\n')
RECURSIVE split_lines(_, _)
split_lines(source, line) ==
    IF source = <<>> THEN <<line>>
    ELSE IF Head(source) = "\n"
    THEN <<line>> \o split_lines(Tail(source), <<>>)
    ELSE split_lines(Tail(source), Append(line, Head(source)))

\* '\n'.join(fixed_lines)
RECURSIVE join_lines(_)
join_lines(lines) ==
    IF lines = <<>> THEN <<>>
    ELSE IF Len(lines) = 1 THEN lines[1]
    ELSE lines[1] \o <<"\n">> \o join_lines(Tail(lines))

block_ends == {<<"{">>, <<"}">>, <<";">>}

statement_starts ==
    {<<"i", "f">>,
     <<"w", "h", "i", "l", "e">>,
     <<"f", "o", "r">>,
     <<"f", "n">>,
     <<"s", "t", "r", "u", "c", "t">>,
     <<"p", "a", "c", "k", "a", "g", "e">>,
     <<"/", "/">>,
     <<"l", "e", "t">>}

statement_words ==
    {<<"i", "m", "p", "o", "r", "t">>,
     <<"r", "e", "t", "u", "r", "n">>,
     <<"e", "l", "s", "e">>}

\* the missing-semicolon heuristic
fix_semicolon(line) ==
    LET stripped == strip(line) IN
    IF /\ stripped # <<>>
       /\ ~\E suffix \in block_ends : endswith(stripped, suffix)
       /\ ~\E prefix \in statement_starts : startswith(stripped, prefix)
       /\ ~\E keyword \in statement_words : contains(stripped, keyword)
    THEN rstrip(line) \o <<";">>
    ELSE line

\* the type-annotation heuristic
fix_annotation(line) ==
    LET annotate(type) ==
          replace_first(line, <<" ", "=">>, <<":", " ">> \o type \o <<" ", "=">>)
    IN  IF /\ contains(line, <<"l", "e", "t">>) /\ contains(line, <<"=">>)
           /\ ~contains(line, <<":">>)
        THEN CASE contains(line, <<"\"">>) -> annotate(<<"S", "t", "r", "i", "n", "g">>)
               [] (\E i \in 1..Len(line) : isdigit(line[i]))
                  /\ contains(line, <<".">>) -> annotate(<<"f", "6", "4">>)
               [] \E i \in 1..Len(line) : isdigit(line[i]) ->
                    annotate(<<"i", "3", "2">>)
               [] contains(line, <<"t", "r", "u", "e">>)
                  \/ contains(line, <<"f", "a", "l", "s", "e">>) ->
                    annotate(<<"b", "o", "o", "l">>)
               [] OTHER -> line
        ELSE line

\* the body of the loop over the lines
fix_line(line) == fix_annotation(fix_semicolon(line))

RECURSIVE fix_lines(_)
fix_lines(lines) ==
    IF lines = <<>> THEN <<>>
    ELSE <<fix_line(Head(lines))>> \o fix_lines(Tail(lines))

auto_fix_common_errors(source) ==
    join_lines(fix_lines(split_lines(source, <<>>)))

-----------------------------------------------------------------------------
(* Inputs *)

\* longest program, in top-level statements
MaxStmts == 2

\* number of check_errors calls on one program
MaxCalls == 2

\* longest token list, in fragments of FragmentPool
MaxFragments == 3

IntOne == Literal("int", "1")

BoolTrue == Literal("bool", "True")

CallOf(name, arguments) == FunctionCall(Identifier(name), arguments)

Returns == {ReturnStatement(NoExpr), ReturnStatement(IntOne)}

LetPool ==
    {LetStatement("x", NoneT, IntOne),
     LetStatement("x", NoneT, Identifier("y")),
     LetStatement("x", NoneT, NoExpr),
     LetStatement("x", "i32", BoolTrue),
     LetStatement("x", "Foo", IntOne),
     LetStatement("x", "S", NoExpr),
     LetStatement("x", "Version", NoExpr),
     LetStatement("x", NoneT, CallOf("print", <<Literal("str", "a")>>)),
     LetStatement("x", NoneT, CallOf("f", <<>>)),
     LetStatement("y", NoneT, Identifier("x")),
     LetStatement("y", NoneT, IntOne)}

ExpressionPool ==
    {ExpressionStatement(e) :
        e \in {Identifier("x"), CallOf("f", <<>>), CallOf("g", <<>>),
               MemberAccess(Identifier("x"), "a"),
               BinaryOp(Identifier("x"), "+", IntOne),
               CallOf("print", <<Identifier("x")>>)}}

\* the constructs that open a scope around one statement
Nest(s) ==
    {IfStatement(BoolTrue, <<s>>, FALSE, <<>>),
     IfStatement(BoolTrue, <<>>, TRUE, <<s>>),
     WhileStatement(BoolTrue, <<s>>),
     ForStatement("y", IntOne, <<s>>),
     Block(<<s>>)}

NestedPool ==
    {Block(<<LetStatement("x", NoneT, IntOne)>>),
     IfStatement(Identifier("x"), <<LetStatement("x", NoneT, IntOne)>>,
                 TRUE, <<ExpressionStatement(Identifier("x"))>>),
     WhileStatement(BoolTrue, <<ReturnStatement(NoExpr)>>),
     ForStatement("x", IntOne, <<ExpressionStatement(Identifier("x"))>>)}

FnBodies ==
    {<<>>} \cup {<<r>> : r \in Returns}
    \cup {<<n>> : n \in Nest(ReturnStatement(NoExpr))}
    \cup {<<ExpressionStatement(CallOf("g", <<>>))>>,
          <<FunctionDefinition("g", <<>>, "i32",
                               <<ReturnStatement(IntOne)>>),
            ReturnStatement(IntOne)>>}

FunctionPool ==
    {FunctionDefinition("f", <<>>, rt, b) :
        rt \in {NoneT, "i32"}, b \in FnBodies}
    \cup {FunctionDefinition("g", <<>>, NoneT,
              <<ExpressionStatement(CallOf("f", <<>>))>>),
          FunctionDefinition("f", <<Parameter("p", "S")>>, NoneT, <<>>),
          FunctionDefinition("f", <<Parameter("x", "i32")>>, "i32",
              <<ReturnStatement(Identifier("x"))>>),
          FunctionDefinition("f", <<Parameter("x", "void")>>, "S",
              <<ExpressionStatement(Identifier("x"))>>)}

StructPool ==
    {StructDefinition("S", <<StructField("a", "i32")>>),
     StructDefinition("S", <<StructField("a", "S")>>),
     StructDefinition("S", <<StructField("a", "Foo"),
                             StructField("a", "i32")>>)}

StatementPool ==
    LetPool \cup ExpressionPool \cup Returns \cup NestedPool
    \cup FunctionPool \cup StructPool

RECURSIVE SeqsUpTo(_, _)
SeqsUpTo(S, n) ==
    IF n = 0 THEN {<<>>}
    ELSE LET shorter == SeqsUpTo(S, n - 1)
         IN shorter \cup {Append(q, e) : q \in shorter, e \in S}

Programs == SeqsUpTo(StatementPool, MaxStmts)

-----------------------------------------------------------------------------
(* check_errors(program), called MaxCalls times on the same Program *)

NotParsed == [pos |-> 0, status |-> "none", node |-> <<>>]

\* the other components are not run
OthersUnused ==
    /\ lexer = Unused
    /\ compiler = Unused
    /\ legacy = Unused
    /\ irgen = Unused
    /\ nasmgen = Unused
    /\ autofix = Unused

Init ==
    /\ program \in Programs
    /\ calls = 0
    /\ results = <<>>
    /\ checker = ErrorChecker
    /\ stmt_index = 1
    /\ pc = "idle"
    /\ tokens = <<>>
    /\ parsed = NotParsed
    /\ OthersUnused

\* check_errors: `checker = ErrorChecker()`, then check_program up to its
\* loop over program.statements
check_errors_call ==
    /\ pc = "idle"
    /\ calls < MaxCalls
    /\ checker' = [ErrorChecker EXCEPT !.errors = <<>>]
    /\ stmt_index' = 1
    /\ pc' = "check_program"
    /\ UNCHANGED <<program, calls, results, tokens, parsed, others>>

\* one iteration of `for statement in program.statements`
check_program_statement ==
    /\ pc = "check_program"
    /\ stmt_index <= Len(program)
    /\ checker' = check_statement(checker, program[stmt_index])
    /\ stmt_index' = stmt_index + 1
    /\ UNCHANGED <<program, pc, calls, results, tokens, parsed, others>>

\* the end of check_program: the unused-symbol pass and `return self.errors`
check_program_return ==
    /\ pc = "check_program"
    /\ stmt_index > Len(program)
    /\ LET done == check_unused_symbols(checker, 1)
       IN /\ checker' = done
          /\ results' = Append(results, done.errors)
    /\ calls' = calls + 1
    /\ pc' = "idle"
    /\ UNCHANGED <<program, stmt_index, tokens, parsed, others>>

Next ==
    \/ check_errors_call
    \/ check_program_statement
    \/ check_program_return

Spec == Init /\ [][Next]_vars

-----------------------------------------------------------------------------
(* ErrorChecker.check_program, called MaxCalls times with the same Program *)
(* on one ErrorChecker object                                              *)

\* checker.check_program(program): `self.errors = []`, up to the loop over
\* program.statements
check_program_call ==
    /\ pc = "idle"
    /\ calls < MaxCalls
    /\ checker' = [checker EXCEPT !.errors = <<>>]
    /\ stmt_index' = 1
    /\ pc' = "check_program"
    /\ UNCHANGED <<program, calls, results, tokens, parsed, others>>

NextChecker ==
    \/ check_program_call
    \/ check_program_statement
    \/ check_program_return

SpecChecker == Init /\ [][NextChecker]_vars

-----------------------------------------------------------------------------
(* parse_source followed by check_errors, as compile_source runs them *)

T(type, value) == <<Token(type, value)>>

Ident(name) == Token("IDENTIFIER", name)

\* pieces of source text, each as the tokens it lexes to
FragmentPool ==
    {T("INTEGER", "007"), T("FLOAT", "2."), T("STRING", "a"),
     T("BOOLEAN", "true"), T("BOOLEAN", "false"), T("IDENTIFIER", "x"),
     T("NEWLINE", "\n"), T("COMMENT", " c"),
     T("LBRACE", "{"), T("RBRACE", "}"), T("LPAREN", "("), T("RPAREN", ")"),
     T("COMMA", ","), T("PLUS", "+"), T("MULTIPLY", "*"), T("MINUS", "-"),
     T("ASSIGN", "="), T("RETURN", "return"),
     <<Token("LET", "let"), Ident("x")>>,
     <<Token("COLON", ":"), Ident("bool")>>,
     <<Token("DOT", "."), Ident("a")>>,
     <<Token("FN", "fn"), Ident("f"), Token("LPAREN", "("),
       Token("RPAREN", ")"), Token("LBRACE", "{")>>,
     <<Token("STRUCT", "struct"), Ident("S"), Token("LBRACE", "{")>>,
     <<Ident("a"), Token("COLON", ":"), Ident("i32")>>,
     <<Token("IF", "if"), Token("BOOLEAN", "true"), Token("LBRACE", "{")>>,
     <<Token("RBRACE", "}"), Token("ELSE", "else"), Token("LBRACE", "{")>>,
     <<Token("WHILE", "while"), Ident("x"), Token("LBRACE", "{")>>,
     <<Token("FOR", "for"), Ident("y"), Ident("x"), Token("LBRACE", "{")>>,
     <<Token("IMPORT", "import"), Ident("m"), Token("FROM", "from"),
       Token("STRING", "p")>>,
     <<Token("VERSION", "version"), Token("STRING", "1")>>,
     <<Token("PACKAGE", "package"), Ident("p"), Token("VERSION", "version"),
       Token("STRING", "1"), Token("LBRACE", "{")>>,
     <<Token("EXPORTS", "exports"), Token("LBRACE", "{"), Ident("x")>>,
     <<Token("DEPENDENCIES", "dependencies"), Token("LBRACE", "{"),
       Token("STRING", "d"), Token("VERSION", "version"),
       Token("STRING", "1")>>}

RECURSIVE Flatten(_)
Flatten(ss) == IF ss = <<>> THEN <<>> ELSE Head(ss) \o Flatten(Tail(ss))

\* Lexer.tokenize ends every token list with one EOF token
TokenLists ==
    {Flatten(fs) \o <<Token("EOF", "")>> :
        fs \in SeqsUpTo(FragmentPool, MaxFragments)}

InitParse ==
    /\ tokens \in TokenLists
    /\ parsed = NotParsed
    /\ program = <<>>
    /\ calls = 0
    /\ results = <<>>
    /\ checker = ErrorChecker
    /\ stmt_index = 1
    /\ pc = "source"
    /\ OthersUnused

\* parse_source: the Program goes on to check_errors, a ParseError ends the
\* compilation, a parser that hangs never returns
parse_source ==
    /\ pc = "source"
    /\ parsed' = Parse(tokens)
    /\ pc' = CASE parsed'.status = "ok" -> "idle"
               [] parsed'.status = "ParseError" -> "failed"
               [] OTHER -> "parsing"
    /\ program' = IF parsed'.status = "ok" THEN parsed'.node ELSE program
    /\ UNCHANGED <<checker, stmt_index, calls, results, tokens, others>>

NextParse ==
    \/ parse_source
    \/ check_errors_call
    \/ check_program_statement
    \/ check_program_return

SpecParse == InitParse /\ [][NextParse]_vars

-----------------------------------------------------------------------------
(* lex_source(source), one iteration of tokenize at a time; then the       *)
(* lexemes of the tokens, printed with single spaces, are lexed again      *)

\* longest source text, in characters
MaxChars == 4

\* characters of every class the lexer tells apart; "#" starts no token
Alphabet == {"a", "1", ".", "\"", "\\", " ", "\n", "/", "=", "&", "#"}

Sources == SeqsUpTo(Alphabet, MaxChars)

\* ' '.join(token.value for token in toks)
RECURSIVE join_lexemes(_)
join_lexemes(toks) ==
    IF toks = <<>> THEN <<>>
    ELSE IF Len(toks) = 1 THEN Head(toks).value
    ELSE Head(toks).value \o <<" ">> \o join_lexemes(Tail(toks))

InitLex ==
    /\ lexer \in {Lexer(source) : source \in Sources}
    /\ pc = "lexing"
    /\ tokens = <<>>
    /\ parsed = NotParsed
    /\ program = <<>>
    /\ calls = 0
    /\ results = <<>>
    /\ checker = ErrorChecker
    /\ stmt_index = 1
    /\ compiler = Unused
    /\ legacy = Unused
    /\ irgen = Unused
    /\ nasmgen = Unused
    /\ autofix = Unused

\* what a run of the lexer leaves alone
beside_lexer ==
    <<program, checker, stmt_index, calls, results, parsed,
      compiler, legacy, irgen, nasmgen, autofix>>

\* an iteration of `while self.position < len(self.source)`
tokenize_step ==
    /\ lexer.pc = "running"
    /\ lexer.position < Len(lexer.source)
    /\ lexer' = tokenize_iteration(lexer)
    /\ UNCHANGED <<pc, tokens, beside_lexer>>

\* the loop is left: the EOF token is added and the tokens are returned
tokenize_eof ==
    /\ lexer.pc = "running"
    /\ lexer.position >= Len(lexer.source)
    /\ lexer' = tokenize_return(lexer)
    /\ UNCHANGED <<pc, tokens, beside_lexer>>

\* the lexemes of the returned tokens, trivia left out, go to a new Lexer
print_lexemes ==
    /\ pc = "lexing"
    /\ lexer.pc = "returned"
    /\ tokens' = lexer.tokens
    /\ lexer' = Lexer(join_lexemes(filter_trivia(lexer.tokens)))
    /\ pc' = "relexing"
    /\ UNCHANGED beside_lexer

NextLex ==
    \/ tokenize_step
    \/ tokenize_eof
    \/ print_lexemes

SpecLex == InitLex /\ [][NextLex]_vars

-----------------------------------------------------------------------------
(* compile_source(source, check_only) on one NeoPaquetCompiler, phase by    *)
(* phase, up to MaxCompiles calls                                           *)

\* longest source text, in pieces
MaxPieces == 2

\* number of compile_source calls on one compiler
MaxCompiles == 2

\* pieces of source text, each one or more lines or the start of one
SourcePieces ==
    {<<"l", "e", "t", " ", "x", " ", "=", " ", "0", "0", "7", "\n">>,
     <<"l", "e", "t", " ", "y", " ", "=", " ", "x", "\n">>,
     <<"x", "\n">>,
     <<"l", "e", "t", " ", "b", ":", " ", "b", "o", "o", "l", " ", "=",
       " ", "t", "r", "u", "e", "\n">>,
     <<"f", "n", " ", "f", "(", ")", " ", "{", " ", "r", "e", "t", "u",
       "r", "n", " ", "}", "\n">>,
     <<"f", "n", " ", "g", "(", ")", " ", "-", ">", " ", "i", "3", "2",
       " ", "{", " ", "r", "e", "t", "u", "r", "n", " ", "2", ".", " ",
       "}", "\n">>,
     <<"p", "r", "i", "n", "t", "(", "\"", "a", "\"", ")", "\n">>,
     <<"\"", "a">>,
     <<"#">>,
     <<"}", " ">>,
     <<"p", "a", "c", "k", "a", "g", "e", " ", "p", " ", "v", "e", "r",
       "s", "i", "o", "n", " ", "\"", "1", "\"", " ", "{">>,
     <<"s", "t", "r", "u", "c", "t", " ", "S", " ", "{", " ", "a", ":",
       " ", "i", "3", "2", " ", "}", "\n", "l", "e", "t", " ", "s", ":",
       " ", "S", "\n", "s", ".", "u", "n", "u", "s", "e", "d", "\n">>,
     <<"/", "/", " ", "c", "\n">>,
     <<"l", "e", "t", " ", "v", ":", " ", "i", "3", "2", " ", "=", " ",
       "1", "\n", "v", "\n">>}

CompileSources == {Flatten(ps) : ps \in SeqsUpTo(SourcePieces, MaxPieces)}

InitCompile ==
    /\ compiler = NeoPaquetCompiler
    /\ pc = "compiler"
    /\ tokens = <<>>
    /\ parsed = NotParsed
    /\ program = <<>>
    /\ calls = 0
    /\ results = <<>>
    /\ checker = ErrorChecker
    /\ stmt_index = 1
    /\ lexer = Unused
    /\ legacy = Unused
    /\ irgen = Unused
    /\ nasmgen = Unused
    /\ autofix = Unused

\* what compile_source leaves alone
beside_compiler ==
    <<pc, checker, stmt_index, calls, results, lexer, legacy, irgen,
      nasmgen, autofix>>

\* the call and `self.errors.clear()`, `self.warnings.clear()`
compile_source_call ==
    /\ compiler.pc = "idle"
    /\ Len(compiler.returned) < MaxCompiles
    /\ \E source \in CompileSources, check_only \in BOOLEAN :
         compiler' = [compiler EXCEPT !.pc = "phase 1", !.errors = <<>>,
                        !.warnings = <<>>, !.source = source,
                        !.check_only = check_only, !.phases = <<>>,
                        !.raised = NoneT, !.semantic_errors = <<>>]
    /\ tokens' = <<>>
    /\ parsed' = NotParsed
    /\ program' = <<>>
    /\ UNCHANGED beside_compiler

\* Phase 1: tokens = lex_source(source)
phase_lexical_analysis ==
    /\ compiler.pc = "phase 1"
    /\ LET c == [compiler EXCEPT !.phases = Append(@, 1)]
           lx == lex_source(compiler.source)
       IN IF lx.pc = "LexerError"
          THEN /\ compiler' = compile_except(c, "LexerError",
                                  <<"Lexer error: ">> \o lx.error)
               /\ tokens' = <<>>
          ELSE /\ compiler' = [c EXCEPT !.pc = "phase 2"]
               /\ tokens' = lx.tokens
    /\ UNCHANGED <<parsed, program, beside_compiler>>

\* Phase 2: program = parse_source(source); a parser that hangs returns
\* nothing and the call stays in this phase
phase_parsing ==
    /\ compiler.pc = "phase 2"
    /\ LET c == [compiler EXCEPT !.phases = Append(@, 2)]
           r == parse_source_text(compiler.source)
       IN CASE r.status = "ok" ->
                 /\ compiler' = [c EXCEPT !.pc = "phase 3"]
                 /\ parsed' = r
                 /\ program' = r.node
                 /\ tokens' = tokens
            [] r.status = "hang" ->
                 /\ compiler' = [c EXCEPT !.pc = "hung"]
                 /\ parsed' = r
                 /\ UNCHANGED <<program, tokens>>
            [] r.status = "ParseError" ->
                 /\ compiler' = compile_except(c, "ParseError",
                                    <<"Parser error: ">>)
                 /\ parsed' = NotParsed
                 /\ program' = <<>>
                 /\ tokens' = <<>>
            [] r.status = "LexerError" ->
                 /\ compiler' = compile_except(c, "LexerError",
                                    <<"Lexer error: ">>)
                 /\ parsed' = NotParsed
                 /\ program' = <<>>
                 /\ tokens' = <<>>
    /\ UNCHANGED beside_compiler

\* Phase 3: semantic_errors = check_errors(program), the loop that sorts
\* them into errors and warnings, and the report of the result
phase_semantic_analysis ==
    /\ compiler.pc = "phase 3"
    /\ compiler' = semantic_analysis(compiler,
                       check_program(ErrorChecker, program).errors)
    /\ IF compiler'.pc = "idle"
       THEN tokens' = <<>> /\ parsed' = NotParsed /\ program' = <<>>
       ELSE UNCHANGED <<tokens, parsed, program>>
    /\ UNCHANGED beside_compiler

\* Phase 4: code generation (prints that it is not implemented), return True
phase_code_generation ==
    /\ compiler.pc = "phase 4"
    /\ compiler' = compile_return(
                     [compiler EXCEPT !.phases = Append(@, 4)], TRUE)
    /\ tokens' = <<>>
    /\ parsed' = NotParsed
    /\ program' = <<>>
    /\ UNCHANGED beside_compiler

NextCompile ==
    \/ compile_source_call
    \/ phase_lexical_analysis
    \/ phase_parsing
    \/ phase_semantic_analysis
    \/ phase_code_generation

SpecCompile == InitCompile /\ [][NextCompile]_vars

-----------------------------------------------------------------------------
(* NeoPaquetCompiler.compile_file and check_file on one compiler object:   *)
(* a path names nothing, a directory, a file that is not UTF-8 text, or a  *)
(* file holding a source; check_file is compile_file with check_only True. *)

Files ==
    {[name |-> "gone.np", kind |-> "missing", content |-> <<>>],
     [name |-> "dir.np", kind |-> "directory", content |-> <<>>],
     [name |-> "raw.np", kind |-> "undecodable", content |-> <<>>]}
    \cup {[name |-> "main.np", kind |-> "text", content |-> source] :
            source \in CompileSources}

\* the message compile_file appends without calling compile_source
compile_file_error(file) ==
    CASE file.kind = "missing" ->
           <<"Source file not found: ", file.name>>
      [] file.kind = "directory" ->
           <<"IO error reading ", file.name, ": ",
             "[Errno 21] Is a directory: '", file.name, "'">>
      [] file.kind = "undecodable" ->
           <<"Unexpected error compiling ", file.name, ": ",
             "'utf-8' codec can't decode byte">>

\* the exception compile_file catches
compile_file_raised(file) ==
    CASE file.kind = "missing" -> NoneT
      [] file.kind = "directory" -> "IOError"
      [] file.kind = "undecodable" -> "UnicodeDecodeError"

\* compile_file(filename, check_only) up to its return or up to the first
\* phase of the compile_source call it makes
compile_file(c, file, check_only) ==
    IF file.kind = "text"
    THEN [c EXCEPT !.pc = "phase 1", !.errors = <<>>, !.warnings = <<>>,
                   !.source = file.content, !.check_only = check_only,
                   !.phases = <<>>, !.raised = NoneT,
                   !.semantic_errors = <<>>]
    ELSE compile_return(
           [c EXCEPT !.errors = Append(@, compile_file_error(file)),
                     !.phases = <<>>, !.semantic_errors = <<>>,
                     !.raised = compile_file_raised(file)], FALSE)

\* compiler.compile_file(filename) or compiler.check_file(filename)
compile_file_call ==
    /\ compiler.pc = "idle"
    /\ Len(compiler.returned) < MaxCompiles
    /\ \E file \in Files, check_only \in BOOLEAN :
         compiler' = compile_file(compiler, file, check_only)
    /\ tokens' = <<>>
    /\ parsed' = NotParsed
    /\ program' = <<>>
    /\ UNCHANGED beside_compiler

NextFiles ==
    \/ compile_file_call
    \/ compile_source_call
    \/ phase_lexical_analysis
    \/ phase_parsing
    \/ phase_semantic_analysis
    \/ phase_code_generation

SpecFiles == InitCompile /\ [][NextFiles]_vars

-----------------------------------------------------------------------------
(* The legacy pipeline, src/neopaquet/main.py compile_file: a source text  *)
(* is tokenized one iteration of Lexer.tokenize at a time, its tokens are  *)
(* parsed by Parser.parse_program, and the tree is handed to IRGen.  A     *)
(* Parser is also run on token lists made by hand.                         *)

\* pieces of a legacy source
MaxLegacyPieces == 2

LegacyPieces ==
    {<<"@", "f", "u", "n", "c", " ", "(", "\"", "i", "d", "\"", ")", " ",
       "[", "x", "]", " ", "g", "o", " ", "{", " ", "p", "r", "i", "n",
       "t", " ", "[", "\"", "o", "k", "\"", "]", " ", "}", "\n">>,
     <<"s", "r", "c", " ", "(", ")", " ", "\"", "s", "t", "d", "o", "u",
       "t", "\"", " ", "{", " ", "p", "r", "i", "n", "t", " ", "[", "\"",
       "a", "\"", "]", " ", "}", " ", "r", "u", "n", "\n">>,
     <<"s", "r", "c", " ", "(", ")", " ", "\"", "s", "t", "d", "o", "u",
       "t", "\"", " ", "{", " ", "p", "r", "i", "n", "t", " ", "[", "\"",
       "a", "\"", "]", " ", "p", "r", "i", "n", "t", " ", "[", "\"", "b",
       "\"", "]", " ", "}", " ", "r", "u", "n", "\n">>,
     <<"s", "r", "c", " ", "(", ")", " ", "\"", "s", "t", "d", "o", "u",
       "t", "\"", " ", "{", " ", "}", " ", "r", "u", "n", "\n">>,
     <<"x", " ", "=", " ", "1", "a", "\n">>,
     <<"T", "a", "s", "k", " ", "<">>,
     <<"i", "f", " ", "x", " ", ">", "=", " ", "1", " ", "{", " ", "}",
       "\n">>,
     <<"i", "f", " ", "x", " ", "{", " ", "y", " ", "=", " ", "2", " ",
       "}", " ", "e", "l", "s", "e", " ", "{", " ", "p", "r", "i", "n",
       "t", " ", "[", "\"", "n", "\"", "]", " ", "}", "\n">>,
     <<"l", "o", "o", "p", " ", "\"", "r", "\"", " ", "{", " ", "}", " ",
       "t", "r", "y", " ", "{", " ", "}", " ", "c", "a", "t", "c", "h",
       " ", "{", " ", "}", "\n">>,
     <<"S", "t", "a", "r", "t", " ", ":", " ", "s", "e", "t", "u", "p",
       " ", "(", "\"", "p", "\"", ")", " ", "d", "o", "n", "e", " ", "{",
       " ", "}", "\n">>,
     <<"-", "-", " ", "c", "\n">>,
     <<";", " ", "c", " ", ";", " ">>,
     <<"#">>,
     <<"\"", "a">>,
     <<"g", "o", "-", "x", " ">>,
     <<"y", " ", "=", " ", "1", "c", "\n">>,
     <<"s", "r", "c", " ", "[", " ", "]", " ", "\"", "s", "t", "d", "o",
       "u", "t", "\"", " ", "{", " ", "}", " ", "r", "u", "n", "\n">>}

LegacySources ==
    {Flatten(ps) : ps \in SeqsUpTo(LegacyPieces, MaxLegacyPieces)}

\* @func ("id") [x] go { print ["ok"] } as tokens, and without its braces
func_tokens(body) ==
    <<Token("KEYWORD", "@func"), Token("SYMBOL", "("), Token("STRING", "id"),
      Token("SYMBOL", ")"), Token("SYMBOL", "["), Token("IDENTIFIER", "x"),
      Token("SYMBOL", "]"), Token("KEYWORD", "go")>> \o body
      \o <<Token("EOF", "")>>

print_tokens ==
    <<Token("KEYWORD", "print"), Token("SYMBOL", "["), Token("STRING", "ok"),
      Token("SYMBOL", "]")>>

LegacyTokenLists ==
    {func_tokens(<<Token("SYMBOL", "{")>> \o print_tokens
                   \o <<Token("SYMBOL", "}")>>),
     func_tokens(print_tokens),
     func_tokens(<<>>)}

\* entry is "source" for compile_file, "tokens" for a Parser on its own
legacy_pipeline(entry, source, toks) ==
    [pc |-> IF entry = "tokens" THEN "parsing" ELSE "lexing",
     entry |-> entry, source |-> source, lexer |-> legacy_Lexer(source),
     tokens |-> toks, ast |-> NoExpr, irgen |-> Unused, raised |-> NoneT]

InitLegacy ==
    /\ \/ \E source \in LegacySources :
            legacy = legacy_pipeline("source", source, <<>>)
       \/ \E toks \in LegacyTokenLists :
            legacy = legacy_pipeline("tokens", <<>>, toks)
    /\ pc = "legacy"
    /\ tokens = <<>>
    /\ parsed = NotParsed
    /\ program = <<>>
    /\ calls = 0
    /\ results = <<>>
    /\ checker = ErrorChecker
    /\ stmt_index = 1
    /\ lexer = Unused
    /\ compiler = Unused
    /\ irgen = Unused
    /\ nasmgen = Unused
    /\ autofix = Unused

beside_legacy ==
    <<program, checker, stmt_index, pc, calls, results, tokens, parsed,
      lexer, compiler, irgen, nasmgen, autofix>>

\* an iteration of `while self.pos < len(self.source)`
legacy_tokenize_step ==
    /\ legacy.pc = "lexing"
    /\ legacy.lexer.pc = "running"
    /\ legacy.lexer.pos < Len(legacy.source)
    /\ LET lx == legacy_tokenize_iteration(legacy.lexer) IN
       legacy' = [legacy EXCEPT
                    !.lexer = lx,
                    !.pc = CASE lx.pc = "SyntaxError" -> "raised"
                             [] lx.pc = "hang" -> "hang"
                             [] OTHER -> @,
                    !.raised = IF lx.pc = "SyntaxError" THEN "SyntaxError"
                               ELSE @]
    /\ UNCHANGED beside_legacy

\* the loop is left: EOF is appended and the tokens go to the Parser
legacy_tokenize_eof ==
    /\ legacy.pc = "lexing"
    /\ \/ legacy.lexer.pc = "break"
       \/ legacy.lexer.pc = "running"
          /\ legacy.lexer.pos >= Len(legacy.source)
    /\ LET lx == legacy_tokenize_return(legacy.lexer) IN
       legacy' = [legacy EXCEPT !.lexer = lx, !.tokens = lx.tokens,
                                !.pc = "parsing"]
    /\ UNCHANGED beside_legacy

\* Parser(tokens).parse_program()
legacy_parse ==
    /\ legacy.pc = "parsing"
    /\ LET r == legacy_parse_program(legacy.tokens) IN
       legacy' = IF r.status = "ok"
                 THEN [legacy EXCEPT !.ast = r.node, !.pc = "parsed"]
                 ELSE [legacy EXCEPT !.pc = "raised", !.raised = r.status]
    /\ UNCHANGED beside_legacy

\* step 4 of compile_file: IRGen() and ast.accept(irgen), the tree being
\* made of the ASTNode of src/Parser.py
legacy_ir_generation ==
    /\ legacy.pc = "parsed"
    /\ LET g == IRGen_accept(IRGen, legacy.ast, Parser_ASTNode_attributes) IN
       legacy' = [legacy EXCEPT
                    !.irgen = g,
                    !.pc = IF g.pc = "raised" THEN "raised" ELSE "lowered",
                    !.raised = g.raised]
    /\ UNCHANGED beside_legacy

NextLegacy ==
    \/ legacy_tokenize_step
    \/ legacy_tokenize_eof
    \/ legacy_parse
    \/ legacy_ir_generation

SpecLegacy == InitLegacy /\ [][NextLegacy]_vars

-----------------------------------------------------------------------------
(* IRGen on a tree built with the node factory of src/npaquetc/ast.py, as  *)
(* its harness builds one: Program([Decl("src", [Literal("stdout"),        *)
(* Block([...])]), Func(...)])                                             *)

\* statements of a block, declarations of a program
MaxBlock == 2
MaxDecls == 2

\* If([Ident("x"), Block([print "t"]), Block([print "e"])])
if_else_prints ==
    ASTNode("b_IF", NoneT,
      <<ASTNode("4_IDENT", "x", <<>>),
        ASTNode("7_BLOCK", NoneT,
          <<ASTNode("2_STMT", "print", <<ASTNode("5_LITERAL", "t", <<>>)>>)>>),
        ASTNode("7_BLOCK", NoneT,
          <<ASTNode("2_STMT", "print",
              <<ASTNode("5_LITERAL", "e", <<>>)>>)>>)>>)

IRStatements ==
    {if_else_prints,
     ASTNode("2_STMT", "print", <<ASTNode("5_LITERAL", "a", <<>>)>>),
     ASTNode("2_STMT", "print", <<ASTNode("5_LITERAL", "b0", <<>>)>>),
     ASTNode("2_STMT", "assign",
       <<ASTNode("4_IDENT", "y", <<>>), ASTNode("5_LITERAL", "1a", <<>>)>>),
     ASTNode("2_STMT", "assign",
       <<ASTNode("4_IDENT", "y", <<>>), ASTNode("5_LITERAL", "c", <<>>)>>),
     ASTNode("2_STMT", "return", <<ASTNode("4_IDENT", "x", <<>>)>>),
     ASTNode("2_STMT", "return", <<ASTNode("4_IDENT", "y", <<>>)>>),
     ASTNode("2_STMT", "return", <<ASTNode("5_LITERAL", "10", <<>>)>>),
     ASTNode("b_IF", NoneT,
       <<ASTNode("4_IDENT", "x", <<>>),
         ASTNode("7_BLOCK", NoneT,
           <<ASTNode("2_STMT", "return",
               <<ASTNode("5_LITERAL", "1", <<>>)>>)>>)>>)}

IRBlocks ==
    {ASTNode("7_BLOCK", NoneT, stmts) :
       stmts \in SeqsUpTo(IRStatements, MaxBlock)}

IRDecls ==
    {ASTNode("1_DECL", "src", <<ASTNode("5_LITERAL", "stdout", <<>>), b>>) :
       b \in IRBlocks}
    \cup {ASTNode("6_FUNC", "f", <<ASTNode("4_IDENT", "x", <<>>), b>>) :
            b \in IRBlocks}
    \cup {ASTNode("1_DECL", "start", <<ASTNode("5_LITERAL", "p", <<>>)>>),
          ASTNode("2_STMT", "print", <<ASTNode("5_LITERAL", "a", <<>>)>>)}

IRPrograms ==
    {ASTNode("0_PROGRAM", NoneT, decls) :
       decls \in SeqsUpTo(IRDecls, MaxDecls)}

InitIR ==
    /\ \E ast \in IRPrograms :
         irgen = [pc |-> "ready", ast |-> ast, visitor |-> IRGen]
    /\ pc = "irgen"
    /\ tokens = <<>>
    /\ parsed = NotParsed
    /\ program = <<>>
    /\ calls = 0
    /\ results = <<>>
    /\ checker = ErrorChecker
    /\ stmt_index = 1
    /\ lexer = Unused
    /\ compiler = Unused
    /\ legacy = Unused
    /\ nasmgen = Unused
    /\ autofix = Unused

\* ast.accept(irgen)
ast_accept ==
    /\ irgen.pc = "ready"
    /\ LET g == IRGen_accept(irgen.visitor, irgen.ast,
                             ast_ASTNode_attributes) IN
       irgen' = [irgen EXCEPT !.visitor = g, !.pc = g.pc]
    /\ UNCHANGED <<program, checker, stmt_index, pc, calls, results, tokens,
                   parsed, lexer, compiler, legacy, nasmgen, autofix>>

NextIR == ast_accept

SpecIR == InitIR /\ [][NextIR]_vars

-----------------------------------------------------------------------------
(* Parser.parse_expression on an unparenthesized sequence of operands and  *)
(* binary operators, each operand a primary with unary operators before it *)
(* and a call or member access after it                                    *)

\* operands of an expression
MaxOperands == 3

BinaryOperators ==
    {Token("OR", "||"), Token("AND", "&&"), Token("EQUAL", "=="),
     Token("NOT_EQUAL", "!="), Token("LESS", "<"), Token("LESS_EQUAL", "<="),
     Token("GREATER", ">"), Token("GREATER_EQUAL", ">="), Token("PLUS", "+"),
     Token("MINUS", "-"), Token("MULTIPLY", "*"), Token("DIVIDE", "/"),
     Token("MODULO", "%")}

\* a, -!b, -f().m: the unary operators, the name, the postfix tokens
Operands ==
    {[unary |-> <<>>, name |-> "a", postfix |-> <<>>],
     [unary |-> <<Token("MINUS", "-"), Token("NOT", "!")>>, name |-> "b",
      postfix |-> <<>>],
     [unary |-> <<Token("MINUS", "-")>>, name |-> "f",
      postfix |-> <<Token("LPAREN", "("), Token("RPAREN", ")"),
                    Token("DOT", "."), Ident("m")>>]}

Expressions ==
    UNION {[operands : [1..n -> Operands],
            operators : [1..(n - 1) -> BinaryOperators]] :
             n \in 1..MaxOperands}

operand_tokens(operand) ==
    operand.unary \o <<Ident(operand.name)>> \o operand.postfix

RECURSIVE expression_tokens(_, _)
expression_tokens(operands, operators) ==
    IF operators = <<>> THEN operand_tokens(operands[1])
    ELSE operand_tokens(operands[1]) \o <<operators[1]>>
         \o expression_tokens(Tail(operands), Tail(operators))

InitExpr ==
    /\ \E e \in Expressions :
         /\ program = e
         /\ tokens = expression_tokens(e.operands, e.operators)
                       \o <<Token("EOF", "")>>
    /\ pc = "expression"
    /\ parsed = NotParsed
    /\ calls = 0
    /\ results = <<>>
    /\ checker = ErrorChecker
    /\ stmt_index = 1
    /\ OthersUnused

\* self.parse_expression() with the parser at the first token
parse_expression_call ==
    /\ pc = "expression"
    /\ parsed' = parse_expression(tokens, 1)
    /\ pc' = "parsed"
    /\ UNCHANGED <<program, checker, stmt_index, calls, results, tokens,
                   others>>

NextExpr == parse_expression_call

SpecExpr == InitExpr /\ [][NextExpr]_vars

-----------------------------------------------------------------------------
(* emit_exe(exe_path) on a NASMGen, statement by statement; the machine    *)
(* (os.name, the files that exist, what clang answers) is an input         *)

ExePaths ==
    {<<"a", ".", "o", "u", "t">>,
     <<"h", "e", "l", "l", "o">>,
     <<"h", ".", "e", "x", "e">>}

\* the IR text of a module, a text llvm cannot parse, a module that does
\* not verify
IRTexts == {"module", "unparsable", "unverifiable"}

\* files is the file system, os_name is os.name
InitNasm ==
    /\ \E llvm_ir \in IRTexts, exe_path \in ExePaths,
          os_name \in {"posix", "nt"}, exists \in BOOLEAN :
         nasmgen = [gen |-> [NASMGen(llvm_ir) EXCEPT !.exe_path = exe_path],
                    os_name |-> os_name,
                    files |-> IF exists
                              THEN {exe_file_of(os_name, exe_path)} ELSE {}]
    /\ pc = "nasmgen"
    /\ tokens = <<>>
    /\ parsed = NotParsed
    /\ program = <<>>
    /\ calls = 0
    /\ results = <<>>
    /\ checker = ErrorChecker
    /\ stmt_index = 1
    /\ lexer = Unused
    /\ compiler = Unused
    /\ legacy = Unused
    /\ irgen = Unused
    /\ autofix = Unused

beside_nasmgen ==
    <<program, checker, stmt_index, pc, calls, results, tokens, parsed,
      lexer, compiler, legacy, irgen, autofix>>

\* an exception leaves the `with` block through __exit__
nasm_raise(exception, files) ==
    nasmgen' = [nasmgen EXCEPT
                  !.gen = emit_exe_raise(@, exception),
                  !.files = TemporaryDirectory_exit(files)]

\* `with tempfile.TemporaryDirectory() as tmpdir`
emit_exe_call ==
    /\ nasmgen.gen.pc = "idle"
    /\ nasmgen' = [nasmgen EXCEPT !.gen.pc = "parse_assembly",
                                  !.files = @ \cup {tmpdir}]
    /\ UNCHANGED beside_nasmgen

\* emit_obj: llvm.parse_assembly(self.llvm_ir)
emit_obj_parse_assembly ==
    /\ nasmgen.gen.pc = "parse_assembly"
    /\ IF nasmgen.gen.llvm_ir = "unparsable"
       THEN nasm_raise("RuntimeError", nasmgen.files)
       ELSE nasmgen' = [nasmgen EXCEPT !.gen.pc = "verify"]
    /\ UNCHANGED beside_nasmgen

\* emit_obj: mod.verify()
emit_obj_verify ==
    /\ nasmgen.gen.pc = "verify"
    /\ IF nasmgen.gen.llvm_ir = "unverifiable"
       THEN nasm_raise("RuntimeError", nasmgen.files)
       ELSE nasmgen' = [nasmgen EXCEPT !.gen.pc = "open"]
    /\ UNCHANGED beside_nasmgen

\* emit_obj: open(obj_path, "wb"), emit_object(mod), f.write(obj_data)
emit_obj_write ==
    /\ nasmgen.gen.pc = "open"
    /\ \/ nasm_raise("OSError", nasmgen.files)
       \/ nasm_raise("RuntimeError", nasmgen.files \cup {obj_file})
       \/ nasm_raise("OSError", nasmgen.files \cup {obj_file})
       \/ nasmgen' = [nasmgen EXCEPT !.gen.pc = "link",
                                     !.files = @ \cup {obj_file}]
    /\ UNCHANGED beside_nasmgen

\* subprocess.run(["clang", obj_file, "-o", exe_file], check=True): clang
\* is missing, or exits with a status, having written exe_file or not
link ==
    /\ nasmgen.gen.pc = "link"
    /\ LET exe_file == exe_file_of(nasmgen.os_name, nasmgen.gen.exe_path) IN
       \/ nasm_raise("FileNotFoundError", nasmgen.files)
       \/ \E returncode \in {0, 1}, files \in {nasmgen.files,
                                              nasmgen.files \cup {exe_file}} :
            /\ returncode = 0 => exe_file \in files
            /\ IF returncode # 0
               THEN nasm_raise("CalledProcessError", files)
               ELSE nasmgen' = [nasmgen EXCEPT !.gen.pc = "linked",
                                               !.gen.exe_file = exe_file,
                                               !.files = files]
    /\ UNCHANGED beside_nasmgen

\* `return exe_file` leaves the `with` block
emit_exe_return ==
    /\ nasmgen.gen.pc = "linked"
    /\ nasmgen' = [nasmgen EXCEPT
                     !.gen.pc = "returned", !.gen.returned = TRUE,
                     !.files = TemporaryDirectory_exit(@)]
    /\ UNCHANGED beside_nasmgen

NextNasm ==
    \/ emit_exe_call
    \/ emit_obj_parse_assembly
    \/ emit_obj_verify
    \/ emit_obj_write
    \/ link
    \/ emit_exe_return

SpecNasm == InitNasm /\ [][NextNasm]_vars

-----------------------------------------------------------------------------
(* auto_fix_common_errors(source), one line of the loop at a time          *)

\* lines of a source
MaxLines == 2

LetNames == {<<"x">>, <<"x", "1">>, <<"m", "e", "s", "s", "a", "g", "e">>}

\* literal initializers with the type of each
LetLiterals ==
    {[text |-> <<"\"", "H", "e", "l", "l", "o", "\"">>,
      type |-> <<"S", "t", "r", "i", "n", "g">>],
     [text |-> <<"\"", "1", ".", "5", "\"">>, type |-> <<"S", "t", "r", "i", "n", "g">>],
     [text |-> <<"4", "2">>, type |-> <<"i", "3", "2">>],
     [text |-> <<"1", ".", "5">>, type |-> <<"f", "6", "4">>],
     [text |-> <<"t", "r", "u", "e">>, type |-> <<"b", "o", "o", "l">>],
     [text |-> <<"f", "a", "l", "s", "e">>, type |-> <<"b", "o", "o", "l">>]}

\* let <name> = <literal>
let_line(name, text) ==
    <<"l", "e", "t", " ">> \o name \o <<" ", "=", " ">> \o text

OtherLines ==
    {<<"l", "e", "t", " ", "t", ":", " ", "i", "3", "2", " ", "=", " ",
       "1">>,
     <<"l", "e", "t", " ", "x", "=", "5">>,
     <<" ", " ", "l", "e", "t", " ", "y", " ", "=", " ", "x", " ">>,
     <<"x", " ", "=", " ", "1", " ">>,
     <<"p", "r", "i", "n", "t", "(", "\"", "a", "\"", ")">>,
     <<"f", "n", " ", "f", "(", ")", " ", "{">>,
     <<"}">>,
     <<" ", " ", "r", "e", "t", "u", "r", "n", " ", "x">>,
     <<"o", "u", "t", "l", "e", "t", " ", "=", " ", "2", ";">>,
     <<>>,
     <<"/", "/", " ", "c">>,
     <<"x", " ", "=", "=", " ", "y">>}

FixLines ==
    {let_line(name, literal.text) : name \in LetNames,
                                    literal \in LetLiterals}
    \cup OtherLines

FixSources == {join_lines(lines) : lines \in SeqsUpTo(FixLines, MaxLines)}

InitFix ==
    /\ \E source \in FixSources :
         autofix = [pc |-> "idle", source |-> source, lines |-> <<>>,
                    fixed_lines |-> <<>>, printed |-> <<>>,
                    returned |-> <<>>]
    /\ pc = "autofix"
    /\ tokens = <<>>
    /\ parsed = NotParsed
    /\ program = <<>>
    /\ calls = 0
    /\ results = <<>>
    /\ checker = ErrorChecker
    /\ stmt_index = 1
    /\ lexer = Unused
    /\ compiler = Unused
    /\ legacy = Unused
    /\ irgen = Unused
    /\ nasmgen = Unused

beside_autofix ==
    <<program, checker, stmt_index, pc, calls, results, tokens, parsed,
      lexer, compiler, legacy, irgen, nasmgen>>

\* lines = source.split('\n')
auto_fix_call ==
    /\ autofix.pc = "idle"
    /\ autofix' = [autofix EXCEPT !.pc = "loop",
                                  !.lines = split_lines(autofix.source, <<>>)]
    /\ UNCHANGED beside_autofix

\* an iteration of `for line_num, line in enumerate(lines, 1)`
auto_fix_line ==
    /\ autofix.pc = "loop"
    /\ Len(autofix.fixed_lines) < Len(autofix.lines)
    /\ LET line_num == Len(autofix.fixed_lines) + 1
           line == fix_line(autofix.lines[line_num])
       IN  autofix' = [autofix EXCEPT
                         !.fixed_lines = Append(@, line),
                         !.printed = IF line # autofix.lines[line_num]
                                     THEN Append(@, line_num) ELSE @]
    /\ UNCHANGED beside_autofix

\* return '\n'.join(fixed_lines)
auto_fix_return ==
    /\ autofix.pc = "loop"
    /\ Len(autofix.fixed_lines) = Len(autofix.lines)
    /\ autofix' = [autofix EXCEPT !.pc = "returned",
                                  !.returned = join_lines(autofix.fixed_lines)]
    /\ UNCHANGED beside_autofix

NextFix ==
    \/ auto_fix_call
    \/ auto_fix_line
    \/ auto_fix_return

SpecFix == InitFix /\ [][NextFix]_vars

-----------------------------------------------------------------------------
(* Properties *)

\* the diagnostics added by the step being taken
NewErrors ==
    SubSeq(checker'.errors, Len(checker.errors) + 1, Len(checker'.errors))

\* check_program is about to check a top-level statement of one of kinds
CheckingA(kinds) ==
    /\ pc = "check_program"
    /\ stmt_index <= Len(program)
    /\ program[stmt_index].k \in kinds

CountOf(errors, type) ==
    Cardinality({i \in 1..Len(errors) : errors[i].type = type})

CountMessage(errors, message) ==
    Cardinality({i \in 1..Len(errors) : errors[i].message = message})

\* the top-level expressions of a statement list that are literals
TopLevelLiterals(statements) ==
    {e \in {statements[i].expression :
               i \in {j \in 1..Len(statements) :
                        statements[j].k = "ExpressionStatement"}}
           \cup {statements[i].value :
               i \in {j \in 1..Len(statements) :
                        statements[j].k = "LetStatement"}} :
        e.k = "Literal"}

\* C1: the literal a token of kind Integer, Float, String, Boolean parses
\* to (a Python int, float, str, bool) is typed i32, f64, String, bool
C1_LiteralTypes ==
    parsed.status = "ok" =>
      \A e \in TopLevelLiterals(parsed.node) :
        get_expression_type(ErrorChecker, e).type =
          (CASE e.py = "int" -> "i32"
             [] e.py = "float" -> "f64"
             [] e.py = "str" -> "String"
             [] e.py = "bool" -> "bool")

\* `let x = e` without annotation, e an identifier no enclosing scope holds
UndefinedLet(ck, stmt) ==
    /\ stmt.k = "LetStatement"
    /\ stmt.type_annotation = NoneT
    /\ stmt.value.k = "Identifier"
    /\ ~lookup(ck.scopes, Len(ck.scopes), stmt.value.name).found

\* C2: checking `let x = e` with e undefined adds exactly one
\* UNDEFINED_VARIABLE diagnostic and no TYPE_ERROR
C2_CascadeSuppressed ==
    [][(CheckingA({"LetStatement"})
          /\ UndefinedLet(checker, program[stmt_index]))
        => /\ CountOf(NewErrors, "UNDEFINED_VARIABLE") = 1
           /\ CountOf(NewErrors, "TYPE_ERROR") = 0]_vars

\* C3: Parser.parse returns a Program or raises ParseError; no loop runs an
\* iteration without consuming a token
C3_ParserTerminates == parsed.status \in {"none", "ok", "ParseError"}

TopLevelNames(statements, kind) ==
    {statements[i].name :
        i \in {j \in 1..Len(statements) : statements[j].k = kind}}

UndefinedTypes ==
    {"UNDEFINED_VARIABLE", "UNDEFINED_FUNCTION", "UNDEFINED_TYPE"}

\* C4: checking a top-level function or struct definition reports no name
\* of a top-level function or struct of the program as undefined, wherever
\* in the program that definition stands
C4_ForwardReferences ==
    [][CheckingA({"FunctionDefinition", "StructDefinition"})
        => \A i \in 1..Len(NewErrors) :
             ~ /\ NewErrors[i].type \in UndefinedTypes
               /\ NewErrors[i].message[2] \in
                    TopLevelNames(program, "FunctionDefinition")
                    \cup TopLevelNames(program, "StructDefinition")]_vars

\* the return statements of a statement that are in no function body
RECURSIVE ReturnsOutside(_)
RECURSIVE ReturnsOutsideAll(_)
ReturnsOutsideAll(body) ==
    IF body = <<>> THEN 0
    ELSE ReturnsOutside(Head(body)) + ReturnsOutsideAll(Tail(body))

ReturnsOutside(stmt) ==
    CASE stmt.k = "ReturnStatement" -> 1
      [] stmt.k = "IfStatement" ->
           ReturnsOutsideAll(stmt.then_body) + ReturnsOutsideAll(stmt.else_body)
      [] stmt.k \in {"WhileStatement", "ForStatement"} ->
           ReturnsOutsideAll(stmt.body)
      [] stmt.k = "Block" -> ReturnsOutsideAll(stmt.statements)
      [] OTHER -> 0

AllStatementKinds ==
    {"LetStatement", "FunctionDefinition", "ReturnStatement", "IfStatement",
     "WhileStatement", "ForStatement", "ExpressionStatement", "Block",
     "StructDefinition", "ImportStatement", "PackageDeclaration"}

\* C5: 'Return statement outside function' is reported once for each return
\* statement that is in no function body and for no other; `return` alone
\* in a function without declared return type is not diagnosed at all
C5_ReturnOutsideFunction ==
    [][CheckingA(AllStatementKinds)
        => /\ CountMessage(NewErrors,
                  <<"Return statement outside function">>)
                = ReturnsOutside(program[stmt_index])
           /\ (program[stmt_index] =
                 FunctionDefinition("f", <<>>, NoneT,
                                    <<ReturnStatement(NoExpr)>>)
               => NewErrors = <<>>)]_vars

\* a top-level `let` of the same name stands before statement i
LetBefore(i) ==
    \E j \in 1..(i - 1) :
        /\ program[j].k = "LetStatement"
        /\ program[j].name = program[i].name

\* C6: a top-level `let` gets one REDEFINITION diagnostic when a `let` of
\* its name stands before it in the same scope and none otherwise; a `let`
\* in a nested scope gets none for a name of the enclosing scope
C6_Redeclaration ==
    [][/\ CheckingA({"LetStatement"})
          => CountOf(NewErrors, "REDEFINITION")
               = IF LetBefore(stmt_index) THEN 1 ELSE 0
       /\ CheckingA({"Block", "IfStatement", "WhileStatement",
                     "ForStatement"})
          => CountOf(NewErrors, "REDEFINITION") = 0]_vars

\* the names the expressions of a statement refer to
RECURSIVE NamesIn(_)
RECURSIVE NamesInAll(_)
NamesInAll(nodes) ==
    IF nodes = <<>> THEN {}
    ELSE NamesIn(Head(nodes)) \cup NamesInAll(Tail(nodes))

NamesIn(n) ==
    CASE n.k = "Identifier" -> {n.name}
      [] n.k = "BinaryOp" -> NamesIn(n.left) \cup NamesIn(n.right)
      [] n.k = "UnaryOp" -> NamesIn(n.operand)
      [] n.k = "FunctionCall" ->
           NamesIn(n.function) \cup NamesInAll(n.arguments)
      [] n.k = "MemberAccess" -> NamesIn(n.object)
      [] n.k = "LetStatement" -> NamesIn(n.value)
      [] n.k = "ReturnStatement" -> NamesIn(n.value)
      [] n.k = "ExpressionStatement" -> NamesIn(n.expression)
      [] n.k = "FunctionDefinition" -> NamesInAll(n.body)
      [] n.k = "IfStatement" ->
           NamesIn(n.condition) \cup NamesInAll(n.then_body)
           \cup NamesInAll(n.else_body)
      [] n.k = "WhileStatement" -> NamesIn(n.condition) \cup NamesInAll(n.body)
      [] n.k = "ForStatement" -> NamesIn(n.iterable) \cup NamesInAll(n.body)
      [] n.k = "Block" -> NamesInAll(n.statements)
      [] OTHER -> {}

\* top-level `let v = ...` statements, with an initializer
InitializedLets(statements) ==
    {statements[i].name :
        i \in {j \in 1..Len(statements) :
                 /\ statements[j].k = "LetStatement"
                 /\ statements[j].value # NoExpr}}

\* C7: check_program returns one 'Unused variable: v' for a top-level
\* `let v = ...` whose name the program never refers to, and none for one
\* it refers to
C7_UnusedDetection ==
    calls >= 1 =>
      \A v \in InitializedLets(program) :
        CountMessage(results[1], <<"Unused variable: ", v>>)
          = IF v \in NamesInAll(program) THEN 0 ELSE 1

ClosedTypes ==
    {"i32", "u32", "i64", "u64", "f32", "f64", "bool", "String", "void"}

\* the expression a statement consists of, if any
ExpressionsOf(stmt) ==
    CASE stmt.k = "ExpressionStatement" -> {stmt.expression}
      [] stmt.k = "LetStatement" -> {stmt.value} \ {NoExpr}
      [] OTHER -> {}

\* C8: the type given to the expression of the statement about to be
\* checked is unknown, one of the closed set, or a struct of the program
C8_ClosedWorld ==
    CheckingA({"ExpressionStatement", "LetStatement"}) =>
      \A e \in ExpressionsOf(program[stmt_index]) :
        get_expression_type(checker, e).type \in
          {NoneT} \cup ClosedTypes
          \cup TopLevelNames(program, "StructDefinition")

\* C9: no variable symbol of any scope has type void
C9_VoidNotStorable ==
    \A d \in 1..Len(checker.scopes) :
      \A i \in 1..Len(checker.scopes[d]) :
        checker.scopes[d][i].cls = "Symbol"
          => checker.scopes[d][i].type # "void"

\* C10: the diagnostic lists check_errors returns for one Program are equal
\* and no step of the analysis changes the Program
C10_SemanticIdempotence ==
    /\ [](\A i, j \in 1..Len(results) : results[i] = results[j])
    /\ [][program' = program]_vars

\* two calls have returned a list of several diagnostics
C10_Witness ==
    /\ calls = 2
    /\ Len(results) = 2
    /\ Len(results[1]) >= 2
    /\ Len(program) = 2

\* the characters that start a token or are skipped between tokens
token_starts ==
    {" ", "\t", "\r", "\n", "/", "\"", "'", "_"} \cup digits \cup letters
    \cup DOMAIN single_char_tokens

EofCount(toks) == Cardinality({i \in 1..Len(toks) : toks[i].type = "EOF"})

\* every character of the source can start a token
InAlphabet(source) == \A i \in 1..Len(source) : source[i] \in token_starts

\* C13 as stated: on a source of characters of the lexer's alphabet
\* tokenize returns a token list that ends in its only EOF token
C13_LexerTotality ==
    (pc = "lexing" /\ InAlphabet(lexer.source) /\ lexer.pc # "running")
      => /\ lexer.pc = "returned"
         /\ lexer.tokens # <<>>
         /\ lexer.tokens[Len(lexer.tokens)].type = "EOF"
         /\ EofCount(lexer.tokens) = 1

\* C13 amended: every iteration of tokenize consumes a character or raises,
\* a returned token list ends in its only EOF token, and LexerError is
\* raised only for an unterminated string literal or at a character that
\* starts no token
C13_LexerTotalityAmended ==
    /\ [][(lexer.pc = "running" /\ lexer'.pc = "running")
            => lexer'.position > lexer.position]_vars
    /\ [](lexer.pc = "returned"
            => /\ lexer.position = Len(lexer.source)
               /\ lexer.tokens # <<>>
               /\ lexer.tokens[Len(lexer.tokens)].type = "EOF"
               /\ EofCount(lexer.tokens) = 1)
    /\ [](lexer.pc = "LexerError"
            => \/ /\ lexer.error = <<"Unterminated string literal">>
                  /\ lexer.position = Len(lexer.source)
                  /\ \E i \in 1..Len(lexer.source) :
                        lexer.source[i] \in {"\"", "'"}
               \/ /\ lexer.error[1] = "Unexpected character: '"
                  /\ lexer.source[lexer.position + 1] \notin token_starts)

\* a source with a string literal among several tokens has been lexed
C13_Witness ==
    /\ pc = "lexing"
    /\ lexer.pc = "returned"
    /\ Len(lexer.tokens) >= 4
    /\ \E i \in 1..Len(lexer.tokens) : lexer.tokens[i].type = "STRING"

\* C15: the lexemes of the tokens lex_source returns, printed with single
\* spaces, are accepted by lex_source and give the same token types and
\* values, trivia aside
C15_RoundTrip ==
    (pc = "relexing" /\ lexer.pc # "running")
      => /\ lexer.pc = "returned"
         /\ filter_trivia(lexer.tokens) = filter_trivia(tokens)

\* a compile_source call has returned
Returned == compiler.pc = "idle" /\ compiler.returned # <<>>

\* the value the last compile_source call returned
LastReturned == compiler.returned[Len(compiler.returned)]

\* C11: compile_source returns False exactly when lexing or parsing failed
\* or the analyzer gave a diagnostic that is not a SEMANTIC_ERROR mentioning
\* 'unused'; every such SEMANTIC_ERROR is among the warnings and not among
\* the errors; and it returns True exactly when the errors are empty
C11_CompileResult ==
    Returned =>
      /\ LastReturned = FALSE
           <=> \/ compiler.raised \in {"LexerError", "ParseError"}
               \/ \E i \in 1..Len(compiler.semantic_errors) :
                    ~ /\ compiler.semantic_errors[i].type = "SEMANTIC_ERROR"
                      /\ mentions_unused(compiler.semantic_errors[i].message)
      /\ \A i \in 1..Len(compiler.semantic_errors) :
           LET d == compiler.semantic_errors[i] IN
           (d.type = "SEMANTIC_ERROR" /\ mentions_unused(d.message))
             => /\ \E j \in 1..Len(compiler.warnings) :
                     compiler.warnings[j] = <<"Warning: ">> \o d.message
                /\ \A j \in 1..Len(compiler.errors) :
                     compiler.errors[j] # <<"Error: ">> \o d.message
      /\ LastReturned = (compiler.errors = <<>>)

\* a program whose only diagnostic is an unused variable has compiled
C11_Witness ==
    /\ Returned
    /\ LastReturned = TRUE
    /\ compiler.warnings # <<>>
    /\ compiler.semantic_errors # <<>>

\* C12: the phases start in the order 1, 2, 3, 4; phase 2 starts only after
\* lexing gave tokens, phase 3 only after parsing gave a Program, phase 4
\* only with no semantic error counted and check_only false; a phase that
\* fails is the last one of its call
C12_PhaseOrder ==
    /\ [](compiler.phases = SubSeq(<<1, 2, 3, 4>>, 1, Len(compiler.phases)))
    /\ [](compiler.pc = "phase 2"
            => /\ lex_source(compiler.source).pc = "returned"
               /\ compiler.errors = <<>>)
    /\ [](compiler.pc = "phase 3"
            => /\ parsed.status = "ok"
               /\ compiler.errors = <<>>)
    /\ [](compiler.pc = "phase 4"
            => /\ ~compiler.check_only
               /\ compiler.errors = <<>>
               /\ \A i \in 1..Len(compiler.semantic_errors) :
                    /\ compiler.semantic_errors[i].type = "SEMANTIC_ERROR"
                    /\ mentions_unused(compiler.semantic_errors[i].message))
    /\ [][(compiler'.errors # <<>> /\ compiler.pc # "idle")
            => compiler'.pc = "idle"]_vars

\* a call has gone through the four phases
C12_Witness == Returned /\ compiler.phases = <<1, 2, 3, 4>>


\* C14: the legacy Lexer.tokenize terminates on every input: each iteration
\* of its main loop consumes at least one character, stops at the end of the
\* input or raises SyntaxError, and the list it returns ends with the only
\* EOF token; `@func`, `<`, `>`, `<=` and `>=` included.
C14_LegacyLexerTerminates ==
    /\ [][legacy_tokenize_step =>
            \/ legacy'.lexer.pos > legacy.lexer.pos
            \/ legacy'.lexer.pc \in {"break", "SyntaxError"}]_vars
    /\ [](legacy.pc # "hang")
    /\ [](legacy.lexer.pc = "returned" =>
            /\ legacy.lexer.tokens # <<>>
            /\ \A i \in 1..Len(legacy.lexer.tokens) :
                 legacy.lexer.tokens[i].type = "EOF"
                   <=> i = Len(legacy.lexer.tokens))

\* the declaration of C16 as source text
func_source ==
    <<"@", "f", "u", "n", "c", " ", "(", "\"", "i", "d", "\"", ")", " ",
      "[", "x", "]", " ", "g", "o", " ", "{", " ", "p", "r", "i", "n", "t",
      " ", "[", "\"", "o", "k", "\"", "]", " ", "}", "\n">>

\* the tree C16 describes for it
func_tree ==
    ASTNode("0_PROGRAM", NoneT,
      <<ASTNode("6_FUNC", "id",
          <<ASTNode("4_IDENT", "x", <<>>),
            ASTNode("7_BLOCK", NoneT,
              <<ASTNode("2_STMT", "print",
                  <<ASTNode("5_LITERAL", "ok", <<>>)>>)>>)>>)>>)

\* C16: Lexer.tokenize followed by Parser.parse_program turns
\* @func ("id") [x] go { print ["ok"] } into one 6_FUNC node of value id
\* whose children are the 4_IDENT x and a 7_BLOCK holding the one print
\* statement; the same holds of the Parser on the tokens of the declaration.
C16_FuncDeclaration ==
    (\/ legacy.entry = "source" /\ legacy.source = func_source
     \/ legacy.entry = "tokens"
        /\ legacy.tokens = func_tokens(<<Token("SYMBOL", "{")>>
                             \o print_tokens \o <<Token("SYMBOL", "}")>>))
    => /\ legacy.pc \notin {"hang", "raised"}
       /\ legacy.pc = "parsed" => legacy.ast = func_tree


\* the source of one src block that prints the texts, in the layout of
\* LegacyPieces
RECURSIVE print_statements(_)
print_statements(texts) ==
    IF texts = <<>> THEN <<>>
    ELSE <<"p", "r", "i", "n", "t", " ", "[", "\"">> \o Head(texts)
         \o <<"\"", "]", " ">> \o print_statements(Tail(texts))

src_source(texts) ==
    <<"s", "r", "c", " ", "(", ")", " ", "\"", "s", "t", "d", "o", "u",
      "t", "\"", " ", "{", " ">>
    \o print_statements(texts) \o <<"}", " ", "r", "u", "n", "\n">>

printed_texts == {<<>>, <<<<"a">>>>, <<<<"a">>, <<"b">>>>}

Select(s, Test(_)) == SelectSeq(s, Test)

\* the module C17 describes for the printed texts
src_block_module(g, texts) ==
    LET defined == Select(g.globals, LAMBDA f :
                     f.cls = "Function" /\ f.blocks # <<>>)
        strings == Select(g.globals, LAMBDA v : v.cls = "GlobalVariable")
        body == defined[1].blocks[1].instructions
        calls_made == Select(body, LAMBDA i : i.op = "call")
        terminators == Select(body, LAMBDA i : i.op = "ret")
    IN  /\ Len(defined) = 1
        /\ defined[1].name = "main"
        /\ defined[1].return_type = "i32"
        /\ defined[1].args = <<>>
        /\ Len(defined[1].blocks) = 1
        /\ Len(strings) = Len(texts)
        /\ \A i \in 1..Len(strings) :
             /\ strings[i].linkage = "internal"
             /\ strings[i].global_constant
             /\ strings[i].initializer = <<str_of(texts[i]), NUL>>
        /\ Len(calls_made) = Len(texts)
        /\ \A i \in 1..Len(calls_made) :
             /\ calls_made[i].callee = "printf"
             /\ calls_made[i].args[1].value = strings[i].name
        /\ terminators = <<[op |-> "ret", value |-> i32(0)]>>
        /\ body[Len(body)] = terminators[1]

\* C17: compile_file lowers a source of one src block whose body is k print
\* statements to a module whose only defined function is main, i32 without
\* parameters, with k internal constant strings (text and a zero byte), k
\* printf calls in statement order and `ret i32 0` as the last instruction
\* and only terminator.
C17_SrcBlockLowering ==
    \A texts \in printed_texts :
      (/\ legacy.entry = "source"
       /\ legacy.source = src_source(texts)
       /\ legacy.pc \in {"raised", "lowered"})
      => /\ legacy.pc = "lowered"
         /\ src_block_module(legacy.irgen, texts)


\* the precedence table of C18, lowest first
precedence ==
    "||" :> 1 @@ "&&" :> 2 @@ "==" :> 3 @@ "!=" :> 3 @@ "<" :> 4 @@
    "<=" :> 4 @@ ">" :> 4 @@ ">=" :> 4 @@ "+" :> 5 @@ "-" :> 5 @@
    "*" :> 6 @@ "/" :> 6 @@ "%" :> 6

\* unary operators nest to the right, over the operand with its postfix
RECURSIVE unary_tree(_, _)
unary_tree(unary, tree) ==
    IF unary = <<>> THEN tree
    ELSE UnaryOp(Head(unary).value, unary_tree(Tail(unary), tree))

operand_tree(operand) ==
    unary_tree(operand.unary,
               IF operand.postfix = <<>> THEN Identifier(operand.name)
               ELSE MemberAccess(FunctionCall(Identifier(operand.name), <<>>),
                                 "m"))

\* the tree the table dictates: the last operator of the lowest precedence
\* is the root, what is left of it its left operand
RECURSIVE precedence_tree(_, _)
precedence_tree(operands, operators) ==
    IF operators = <<>> THEN operand_tree(operands[1])
    ELSE LET n == Len(operators)
             lowest == CHOOSE k \in 1..n :
                         \A j \in 1..n :
                           \/ precedence[operators[j].value]
                                > precedence[operators[k].value]
                           \/ precedence[operators[j].value]
                                = precedence[operators[k].value] /\ j <= k
         IN  BinaryOp(precedence_tree(SubSeq(operands, 1, lowest),
                                      SubSeq(operators, 1, lowest - 1)),
                      operators[lowest].value,
                      precedence_tree(SubSeq(operands, lowest + 1, n + 1),
                                      SubSeq(operators, lowest + 1, n)))

\* C18: parse_expression builds the tree of the precedence table: binary
\* operators of equal precedence group to the left, an operator of higher
\* precedence binds tighter, unary operators nest to the right and bind
\* tighter than any binary operator, postfix tighter than unary.
C18_Precedence ==
    pc = "parsed" =>
      /\ parsed.status = "ok"
      /\ parsed.pos = Len(tokens)
      /\ parsed.node = precedence_tree(program.operands, program.operators)

\* -!b * a - -f().m has been parsed
C18_Witness ==
    /\ pc = "parsed"
    /\ Len(program.operands) = 3
    /\ program.operators[1].value = "*"
    /\ program.operators[2].value = "-"
    /\ program.operands[1].name = "b"
    /\ program.operands[3].name = "f"
    /\ parsed.node.k = "BinaryOp"
    /\ parsed.node.left.k = "BinaryOp"
    /\ parsed.node.left.left.k = "UnaryOp"


\* C19: emit_exe makes its staging directory inside the call, and neither
\* the directory nor the object file exists once the call has returned or
\* raised; a non-zero exit of clang, like a failure to parse, verify or
\* write, ends the call with an exception and no returned path.
C19_StagingRemoved ==
    /\ nasmgen.gen.pc = "idle" => staging \cap nasmgen.files = {}
    /\ nasmgen.gen.pc \notin {"idle", "returned", "raised"}
         => tmpdir \in nasmgen.files
    /\ nasmgen.gen.pc \in {"returned", "raised"}
         => staging \cap nasmgen.files = {}
    /\ nasmgen.gen.pc = "raised"
         => nasmgen.gen.raised # NoneT /\ ~nasmgen.gen.returned
    /\ nasmgen.gen.pc = "returned"
         => /\ nasmgen.gen.raised = NoneT
            /\ nasmgen.gen.llvm_ir = "module"
            /\ nasmgen.gen.exe_file \in nasmgen.files

\* clang has exited with a non-zero status after the object file was written
C19_Witness ==
    /\ nasmgen.gen.pc = "raised"
    /\ nasmgen.gen.raised = "CalledProcessError"
    /\ staging \cap nasmgen.files = {}


\* C20: auto_fix_common_errors gives every line `let <name> = <literal>`
\* (with ` =` and no `:`) the annotation of the kind of its literal: String
\* for a string literal, f64 for a float, i32 for an integer, bool for true
\* and false.
C20_AnnotationMatchesLiteral ==
    \A i \in 1..Len(autofix.fixed_lines) :
      \A name \in LetNames, literal \in LetLiterals :
        autofix.lines[i] = let_line(name, literal.text)
        => autofix.fixed_lines[i]
             = <<"l", "e", "t", " ">> \o name \o <<":", " ">>
               \o literal.type \o <<" ", "=", " ">> \o literal.text


\* the texts a block prints, in the order of its printf calls
printed_by(g, block) ==
    LET printf_calls == Select(block.instructions, LAMBDA i : i.op = "call")
    IN  [i \in 1..Len(printf_calls) |->
           g.globals[global_index(g, printf_calls[i].args[1].value)]
             .initializer[1]]

\* the blocks of the functions IRGen has defined
generated_blocks(g) ==
    UNION {{<<i, b>> : b \in 1..Len(g.globals[i].blocks)} :
             i \in {j \in 1..Len(g.globals) : g.globals[j].cls = "Function"}}

\* C21: the statements of the then-block and of the else-block of an If are
\* emitted into different basic blocks chosen by a conditional branch, so
\* no path through a generated function runs both: no block, run from its
\* first instruction to its last, prints both "t" and "e".
C21_IfBranchesExclusive ==
    irgen.pc = "visited" =>
      \A fb \in generated_blocks(irgen.visitor) :
        LET texts == printed_by(irgen.visitor,
                       irgen.visitor.globals[fb[1]].blocks[fb[2]])
        IN  ~(/\ \E i \in 1..Len(texts) : texts[i] = "t"
              /\ \E i \in 1..Len(texts) : texts[i] = "e")


\* the positions of the terminators (`ret`) of a block
terminators(block) ==
    {i \in 1..Len(block.instructions) : block.instructions[i].op = "ret"}

\* C22: after IRGen lowers a program, every basic block of every generated
\* function contains exactly one terminator and it is the block's last
\* instruction (no statement adds an instruction after a `return`).
C22_OneFinalTerminator ==
    irgen.pc = "visited" =>
      \A fb \in generated_blocks(irgen.visitor) :
        LET block == irgen.visitor.globals[fb[1]].blocks[fb[2]]
        IN  terminators(block) = {Len(block.instructions)}


\* the name of the function an operand of `ret` belongs to, for a parameter
owners(value) == IF value.cls = "Argument" THEN {value.function} ELSE {}

\* C30: an identifier resolves only to a value bound in the function being
\* lowered: whether lowering ended or was aborted by an error, no `ret` in
\* a generated function has as operand the parameter of a different
\* function, and no `ret` is emitted without a value (a `return` of a name
\* bound nowhere is a fatal error instead).
C30_ReturnOfOwnBinding ==
    irgen.pc \in {"visited", "raised"} =>
      \A fb \in generated_blocks(irgen.visitor) :
        LET function == irgen.visitor.globals[fb[1]]
            block == function.blocks[fb[2]]
        IN  \A i \in terminators(block) :
              /\ block.instructions[i].value # NoValue
              /\ owners(block.instructions[i].value) \subseteq {function.name}


\* the texts of at most MaxDigits digits 0-9, a, b
base12_lexemes ==
    UNION {[1..n -> {"0", "1", "2", "3", "4", "5", "6", "7", "8", "9",
                     "a", "b"}] : n \in 1..MaxDigits}

\* name = lexeme, as parse_stmt builds it
assign_statement(name, lexeme) ==
    ASTNode(NODE_MAP["STMT"], "assign",
      <<ASTNode(NODE_MAP["IDENT"], name, <<>>),
        ASTNode(NODE_MAP["LITERAL"], lexeme, <<>>)>>)

\* C23: every NUMBER token the legacy lexer emits consists only of base-12
\* digits, and IRGen.visit_stmt lowers an assign of it without failing,
\* binding the name to the i32 constant of the lexeme read in base 12.
C23_LexedNumberLowers ==
    (legacy.entry = "source" /\ legacy.pc = "parsing") =>
      \A i \in 1..Len(legacy.tokens) :
        legacy.tokens[i].type = "NUMBER" =>
          LET g == visit_stmt(IRGen,
                     assign_statement("y", legacy.tokens[i].value))
          IN  /\ g.pc # "raised"
              /\ \E cs \in base12_lexemes :
                   /\ str_of(cs) = legacy.tokens[i].value
                   /\ dict_get(g.var_symtab, "y")
                        = [cls |-> "Constant", type |-> "i32",
                           value |-> base12_value(cs, 0)]


\* C24: _expect refuses every token whose type or (given) value differs
\* from the expected one, so a program the Parser accepts that begins with
\* `src` begins with exactly `src ( ) STRING {`.
C24_SrcShape ==
    (legacy.pc = "parsed" /\ legacy.tokens[1].value = "src") =>
      /\ legacy.tokens[1] = Token("KEYWORD", "src")
      /\ legacy.tokens[2] = Token("SYMBOL", "(")
      /\ legacy.tokens[3] = Token("SYMBOL", ")")
      /\ legacy.tokens[4].type = "STRING"
      /\ legacy.tokens[5] = Token("SYMBOL", "{")


\* a diagnostic of the walk over the statements: every diagnostic of the
\* unused-symbol pass, and no other, starts with 'Unused variable: '
from_statement_walk(d) == d.message[1] # "Unused variable: "

\* C28: every diagnostic produced while walking the statements is counted
\* as an error, is not among the warnings, and makes compile_source return
\* False; only the diagnostics of the unused-symbol pass are demoted.
C28_OnlyUnusedPassDemoted ==
    Returned =>
      \A i \in 1..Len(compiler.semantic_errors) :
        LET d == compiler.semantic_errors[i] IN
        from_statement_walk(d) =>
          /\ LastReturned = FALSE
          /\ \E j \in 1..Len(compiler.errors) :
               compiler.errors[j] = <<"Error: ">> \o d.message
          /\ \A j \in 1..Len(compiler.warnings) :
               compiler.warnings[j] # <<"Warning: ">> \o d.message


\* C27: every compile_file, check_file and compile_source call starts from
\* empty error and warning lists: a call that goes on to the phases starts
\* them with both lists empty, and a call that returns at once (the path
\* names no readable source) leaves its own message as the only error and
\* no warning.
C27_OnlyLatestCall ==
    [][(compiler.pc = "idle" /\ compiler' # compiler)
         => /\ compiler'.warnings = <<>>
            /\ IF compiler'.pc = "idle"
               THEN \E file \in Files :
                      /\ file.kind # "text"
                      /\ compiler'.errors = <<compile_file_error(file)>>
               ELSE compiler'.errors = <<>>]_vars


\* C29: check_program leaves no analysis state behind: every call on one
\* ErrorChecker starts with a global scope that holds only the built-ins,
\* and the calls with the same Program return equal diagnostic lists.
C29_CheckProgramReentrant ==
    /\ (pc = "check_program" /\ stmt_index = 1)
         => /\ Len(checker.scopes) = 1
            /\ [i \in 1..Len(checker.scopes[1]) |-> checker.scopes[1][i].name]
                 = <<"print", "len">>
    /\ \A i \in 1..Len(results) : results[i] = results[1]


\* the names a top-level statement declares in the scope it stands in
declared_by(stmt) ==
    IF stmt.k \in {"LetStatement", "FunctionDefinition", "StructDefinition"}
    THEN {stmt.name}
    ELSE {}

scope_names(scope) == {scope[i].name : i \in 1..Len(scope)}

\* C26: check_statement returns with the scope it was called in as the
\* current scope (the global scope, for a top-level statement); no name
\* declared inside the statement's function body, block, branch or loop
\* body is resolvable afterwards, so the statement adds to the global scope
\* at most the name it declares itself; and the unused-symbol pass reports
\* only names declared by top-level statements.
C26_ScopeHygiene ==
    [][/\ (pc = "check_program" /\ stmt_index' = stmt_index + 1)
            => /\ Len(checker.scopes) = 1
               /\ Len(checker'.scopes) = 1
               /\ scope_names(global_scope(checker'))
                    \subseteq scope_names(global_scope(checker))
                              \cup declared_by(program[stmt_index])
       /\ (pc = "check_program" /\ pc' = "idle")
            => /\ Len(checker'.scopes) = 1
               /\ \A i \in 1..Len(checker'.errors) :
                    checker'.errors[i].message[1] = "Unused variable: "
                      => \E k \in 1..Len(program) :
                           checker'.errors[i].message[2]
                             \in declared_by(program[k])]_vars

\* the checker after the walk over the first k top-level statements
walked(k) ==
    check_statements([ErrorChecker EXCEPT !.errors = <<>>],
                     SubSeq(program, 1, k), 1)

\* the variables of a scope
variables_of(scope) ==
    {scope[i].name : i \in {j \in 1..Len(scope) : scope[j].cls = "Symbol"}}

\* the top-level statement that declared (bound) the global variable v
declared_at(v) ==
    CHOOSE k \in 1..Len(program) :
      /\ v \in variables_of(global_scope(walked(k)))
      /\ v \notin variables_of(global_scope(walked(k - 1)))

\* the top-level statement the p-th diagnostic of the list check_program
\* returns concerns; walk is the number of diagnostics of the walk
concerns(diagnostics, walk, p) ==
    IF p <= walk
    THEN CHOOSE k \in 1..Len(program) :
           /\ p <= Len(walked(k).errors)
           /\ p > Len(walked(k - 1).errors)
    ELSE declared_at(diagnostics[p].message[2])

is_unused_diagnostic(d) == d.message[1] = "Unused variable: "

IsPrefix(s, t) == Len(s) <= Len(t) /\ s = SubSeq(t, 1, Len(s))

\* C25 as stated: in the list check_program returns, a diagnostic that
\* concerns an earlier top-level statement comes before every diagnostic
\* that concerns a later one, the unused-variable diagnostics included.
C25_SourceOrder ==
    [][(pc = "check_program" /\ pc' = "idle")
         => \A p, q \in 1..Len(checker'.errors) :
              concerns(checker'.errors, Len(checker.errors), p)
                < concerns(checker'.errors, Len(checker.errors), q)
              => p < q]_vars

\* C25 amended: the diagnostics of the walk come in source order (those of
\* a statement are appended behind those of the statements before it), the
\* unused-variable diagnostics follow all of them, and among themselves
\* they stand in the order in which their variables were declared.
C25_SourceOrderAmended ==
    [][/\ (pc = "check_program" /\ stmt_index' = stmt_index + 1)
            => /\ IsPrefix(checker.errors, checker'.errors)
               /\ \A p \in 1..Len(checker'.errors) :
                    ~is_unused_diagnostic(checker'.errors[p])
       /\ (pc = "check_program" /\ pc' = "idle")
            => /\ IsPrefix(checker.errors, checker'.errors)
               /\ \A p \in Len(checker.errors) + 1..Len(checker'.errors) :
                    is_unused_diagnostic(checker'.errors[p])
               /\ \A p, q \in Len(checker.errors) + 1..Len(checker'.errors) :
                    p < q => declared_at(checker'.errors[p].message[2])
                               < declared_at(checker'.errors[q].message[2])
      ]_vars

\* a call has returned a diagnostic of the walk followed by the unused
\* diagnostics of two variables
C25_Witness ==
    /\ pc = "idle"
    /\ results # <<>>
    /\ Len(results[1]) >= 3
    /\ ~is_unused_diagnostic(results[1][1])
    /\ results[1][Len(results[1]) - 1].message
         = <<"Unused variable: ", "x">>
    /\ results[1][Len(results[1])].message = <<"Unused variable: ", "y">>

====
